---- MODULE Spec2Model ----
(***************************************************************************)
(* A model of the translation front end: the router performRouting, the   *)
(* fetchWithTimeout/callApi layer of the provider adapters, and the       *)
(* handlers of the TranslationInterface component that start, cancel and  *)
(* settle routing operations.                                             *)
(*                                                                         *)
(* One action is one run-to-completion segment of the JavaScript event    *)
(* loop: a user event handler up to its first network suspension, or the  *)
(* continuation of an operation after a network event.  Promise           *)
(* continuations triggered by AbortController.abort() are microtasks: the *)
(* variable aborting names the operation whose fetch promise has been     *)
(* rejected and whose continuation must run before any other task.        *)
(***************************************************************************)
EXTENDS Integers, Sequences, FiniteSets, TLC

\* ------------------------------------------------------------------ bounds
\* Number of routing operations (handleTranslate / handleGranularAnalyze
\* calls) one behaviour of Spec may start.
MaxOps == 3

\* Number of routing operations one behaviour of SpecRouter may start.
RouterOps == 1

\* Number of routing operations one behaviour of SpecStores may start.
StoreOps == 2

\* The longest core of an answer of an endpoint, in tokens.
MaxCore == 3

\* The longest history list the store is run to, and the last reading of the clock.
MaxHistoryLen == 2

MaxClock == 2

\* ------------------------------------------------------- program constants
\* The settings panel edits five routing slots, [0, 1, 2, 3, 4].
PlanLen == 5

\* const API_TIMEOUT = 60000 // Extended timeout for analysis
API_TIMEOUT == 60000

\* const API_TIMEOUT = 30000 of the earlier provider layer.
API_TIMEOUT_EARLIER == 30000

\* The routing depth slider: min="1" max="5".
MinRoutingCount == 1
MaxRoutingCount == 5

\* ------------------------------------------------------------ input sets
Providers == {"groq", "gemini"}

\* A routing step is a (provider, model) pair.
StepChoices ==
  { [provider |-> "groq", model |-> "llama-3.3-70b-versatile"],
    [provider |-> "gemini", model |-> "gemini-2.5-flash"] }

\* HTTP statuses a vendor may answer with.
Statuses == {200, 401, 429, 500, 503}

\* The statuses the component specification draws from: success, congestion
\* and a fatal vendor error.
ComponentStatuses == {200, 429, 500}

AnalysisTypes == {"vocabulary", "grammar", "nuance"}

\* Source texts, as sequences of characters.
Texts == { <<>>, <<" ">>, <<"a">> }

NoProvider == "null"

Steps == 0 .. (PlanLen - 1)

OpIds == 1 .. MaxOps

VARIABLES
  settings,                  \* useSettingsStore(): routingSteps, routingCount, apiKeys
  sourceText,                \* useState('')
  loading,                   \* useState(false)
  response,                  \* useState<TranslationResult | null>(null)
  analyzingType,             \* useState(null)
  activeProvider,            \* useState<LLMProvider | null>(null)
  currentHistoryId,          \* useState<string | null>(null); 0 is null
  translationControllerRef,  \* useRef<AbortController | null>(null); 0 is null
  isMountedRef,              \* useRef(true)
  history,                   \* useHistoryStore().history
  ops,                       \* the routing operations, by id
  nOps,                      \* operations started so far
  budget,                    \* operations this behaviour may start
  aborting,                  \* operation whose fetch was rejected by abort(); 0 is none
  last,                      \* the most recent settlement of an operation
  storeVersion,              \* which of the two useHistoryStore sources is loaded
  now,                       \* Date.now()
  call,                      \* the last call of a store method or of a pure helper
  localSourceLanguage,       \* useState<Language>('japanese')
  localTargetLanguage,       \* useState<Language>('english')
  localSettings,             \* SettingsPanel: useState({ ...settings })
  activeSlotIndex,           \* SettingsPanel: useState(0)
  useCustomModel,            \* SettingsPanel: useState(isCustomModel)
  customModel                \* SettingsPanel: useState(isCustomModel ? model : '')

\* The language selection of the translation view and the state of the
\* settings panel.
panelVars == << localSourceLanguage, localTargetLanguage, localSettings, activeSlotIndex,
               useCustomModel, customModel >>

vars == << settings, sourceText, loading, response, analyzingType, activeProvider,
           currentHistoryId, translationControllerRef, isMountedRef, history,
           ops, nOps, budget, aborting, last, storeVersion, now, call, panelVars >>

\* ------------------------------------------------------------ error values
\* An error value: its name, what it says, the HTTP status it carries
\* (0: no status property) and the step whose adapter produced it.
NoError == [name |-> "none", message |-> "none", status |-> 0, step |-> -1]

LLMError(status, i) ==
  [name |-> "LLMError", message |-> "api", status |-> status, step |-> i]

AbortError(i) ==
  [name |-> "AbortError", message |-> "aborted", status |-> 0, step |-> i]

NetworkError(i) ==
  [name |-> "TypeError", message |-> "network", status |-> 0, step |-> i]

JsonError(i) ==
  [name |-> "SyntaxError", message |-> "json", status |-> 0, step |-> i]

NoValidKeyError ==
  [name |-> "Error", message |-> "noValidApiKey", status |-> 0, step |-> -1]

\* response.text() on a body that response.json() has already consumed.
BodyUsedError(i) ==
  [name |-> "TypeError", message |-> "body used", status |-> 0, step |-> i]

\* ------------------------------------------------------------- operations
NoLog == [s \in Steps |-> "none"]

NoAnalysis == [t \in AnalysisTypes |-> 0]

NoResponse == [translation |-> 0, original |-> <<>>, analysis |-> NoAnalysis]

IdleOp ==
  [ kind |-> "none", pc |-> "idle", i |-> 0, status |-> 0,
    signalAborted |-> FALSE, timer |-> FALSE, timeout |-> 0, listener |-> FALSE,
    lastError |-> NoError, err |-> NoError, setAP |-> "unchanged", result |-> 0,
    type |-> "none", sourceText |-> <<>>, response |-> NoResponse, historyId |-> 0,
    invoked |-> {}, dispatched |-> {}, attempts |-> <<>>, log |-> NoLog,
    cause |-> "none", dispatchedAfterAbort |-> FALSE ]

\* No call yet.
NoCall == [fn |-> "none"]

\* The settings panel is not open.
NoLocalSettings == [open |-> FALSE]

NoSettlement ==
  [ op |-> 0, kind |-> "none", outcome |-> "none", err |-> NoError,
    resultStep |-> -1, providerUsed |-> NoProvider, modelUsed |-> "none",
    invoked |-> {}, dispatched |-> {}, attempts |-> <<>>, log |-> NoLog,
    cause |-> "none", dispatchedAfterAbort |-> FALSE, signalAborted |-> FALSE,
    mounted |-> TRUE, toast |-> "none" ]

\* ------------------------------------------------------------------ router
\* The plan without the slice: every configured slot is tried.
StepsToTryLenNoSlice == PlanLen

\* slice(0, routingCount + 1)
StepsToTryLenOffByOne ==
  IF settings.routingCount + 1 < PlanLen THEN settings.routingCount + 1 ELSE PlanLen

\* settings.routingSteps.slice(0, settings.routingCount).length
StepsToTryLen ==
  IF settings.routingCount < PlanLen THEN settings.routingCount ELSE PlanLen

\* const providerApiKey = settings.apiKeys[step.provider]; a key is a string,
\* modelled by whether it is non-empty.
providerApiKey(i) == settings.apiKeys[settings.routingSteps[i].provider]

\* error.status || (error instanceof LLMError ? error.status : null); 0 is null
statusCode(error) == error.status

\* A router that falls back on every status-carrying failure.
IsCongestionAnyStatus(code) == code # 0

\* A router that knows HTTP 429 only.
IsCongestion429Only(code) == code = 429

\* A router that also falls back on failures that carry no status.
IsCongestionOrNoStatus(code) == code \in {0, 429, 503}

\* statusCode === 429 || statusCode === 503
IsCongestion(code) == code = 429 \/ code = 503

\* i < stepsToTry.length - 1
HasNextStep(i) == i < StepsToTryLen - 1

\* What the log of an operation records for a failed step.
Outcome(error) ==
  IF error.name = "LLMError" THEN ToString(error.status) ELSE error.name

\* fetchWithTimeout without the externalSignal.aborted test: the listener is
\* registered on a signal whose abort event has already fired.
fetchWithTimeoutNoAbortedTest(o) ==
  [o EXCEPT !.pc = "fetch", !.timer = TRUE, !.listener = TRUE,
            !.dispatched = @ \cup {o.i},
            !.dispatchedAfterAbort = @ \/ o.signalAborted]

\* A speculative fan-out: the request of the next step leaves with this one.
fetchWithTimeoutFanOut(o) ==
  IF o.signalAborted
    THEN [o EXCEPT !.pc = "rejected", !.err = AbortError(o.i), !.cause = "cancel",
                   !.timer = FALSE, !.listener = FALSE]
    ELSE [o EXCEPT !.pc = "fetch", !.timer = TRUE, !.listener = TRUE,
                   !.dispatched = @ \cup {o.i} \cup (IF HasNextStep(o.i) THEN {o.i + 1} ELSE {})]

\* A fetchWithTimeout that clears its timer and leaves its listener on the
\* external signal.
clearTimerKeepsListener(o) == [o EXCEPT !.timer = FALSE]

\* clearTimeout(timeoutId); externalSignal.removeEventListener('abort', handleAbort)
clearTimer(o) == [o EXCEPT !.timer = FALSE, !.listener = FALSE]

\* Adapters that give a translation the timeout of the earlier provider layer.
callTimeoutShortTranslate(kind) ==
  IF kind = "translate" THEN API_TIMEOUT_EARLIER ELSE API_TIMEOUT

\* The timeout translateText and analyzeSpecific hand to fetchWithTimeout:
\* }, API_TIMEOUT, signal)
callTimeout(kind) == API_TIMEOUT

\* fetchWithTimeout up to its await: the timer is armed; an external signal
\* that is already aborted aborts the request's own controller at once, and
\* fetch() with an aborted signal rejects with an AbortError without sending
\* anything; otherwise the abort listener is registered and the request is
\* dispatched.  The catch block clears the timer and rethrows.
fetchWithTimeout(o) ==
  IF o.signalAborted
    THEN [o EXCEPT !.pc = "rejected", !.err = AbortError(o.i), !.cause = "cancel",
                   !.timer = FALSE, !.listener = FALSE]
    ELSE [o EXCEPT !.pc = "fetch", !.timer = TRUE, !.timeout = callTimeout(o.kind),
                   !.listener = TRUE, !.dispatched = @ \cup {o.i}]

RECURSIVE performRouting(_, _)
RECURSIVE catchStep(_, _)

\* throw lastError, the router before the explicit no-key error was added.
throwLastUndefined(o) ==
  [o EXCEPT !.pc = "thrown", !.err = o.lastError]

\* A router that ends the loop with the no-key error whatever failed before.
throwLastForgotten(o) ==
  [o EXCEPT !.pc = "thrown", !.err = NoValidKeyError]

\* throw lastError || new Error('有効なAPIキーが設定されていません。...')
throwLast(o) ==
  [o EXCEPT !.pc = "thrown",
            !.err = IF o.lastError # NoError THEN o.lastError ELSE NoValidKeyError]

\* A router that calls the adapter of a step without a key.
skipStepNever(i) == FALSE

\* if (!providerApiKey) continue
skipStep(i) == ~providerApiKey(i)

\* The loop of performRouting from index i, up to the next suspension (a
\* dispatched request) or to its end (a throw).
performRouting(o, i) ==
  IF i >= StepsToTryLen THEN throwLast(o)
  ELSE IF skipStep(i) THEN performRouting([o EXCEPT !.log[i] = "skip"], i + 1)
  ELSE LET started == [o EXCEPT !.i = i,
                                !.setAP = settings.routingSteps[i].provider,
                                !.invoked = @ \cup {i},
                                !.attempts = Append(@, i)]
           f == fetchWithTimeout(started)
       IN  IF f.pc = "rejected" THEN catchStep(f, f.err) ELSE f

\* A router that tries a congested step again instead of moving on.
catchStepRetrySame(o, error) ==
  LET o1 == [o EXCEPT !.lastError = error, !.log[o.i] = Outcome(error),
                      !.timer = FALSE, !.listener = FALSE]
  IN  IF IsCongestion(statusCode(error)) /\ HasNextStep(o.i)
        THEN performRouting(o1, o.i)
        ELSE [o1 EXCEPT !.pc = "thrown", !.err = error]

\* The catch block of performRouting for the step o.i.
catchStep(o, error) ==
  LET o1 == [o EXCEPT !.lastError = error, !.log[o.i] = Outcome(error),
                      !.timer = FALSE, !.listener = FALSE]
  IN  IF IsCongestion(statusCode(error)) /\ HasNextStep(o.i)
        THEN performRouting(o1, o.i + 1)
        ELSE [o1 EXCEPT !.pc = "thrown", !.err = error]

\* A router that reports the primary slot instead of the step that answered.
routingResultPrimary(o) ==
  [ resultStep |-> o.i,
    providerUsed |-> settings.routingSteps[0].provider,
    modelUsed |-> settings.routingSteps[0].model ]

\* return { result, providerUsed: step.provider, modelUsed: step.model }
routingResult(o) ==
  [ resultStep |-> o.i,
    providerUsed |-> settings.routingSteps[o.i].provider,
    modelUsed |-> settings.routingSteps[o.i].model ]

\* A router that collects the answers of all steps before it returns.
returnStepAfterAll(o, result) ==
  IF HasNextStep(o.i)
    THEN performRouting([o EXCEPT !.log[o.i] = "ok", !.result = result], o.i + 1)
    ELSE [o EXCEPT !.pc = "returned", !.log[o.i] = "ok", !.result = result]

\* const result = await action(provider) has resolved for the step o.i.
returnStep(o, result) ==
  [o EXCEPT !.pc = "returned", !.log[o.i] = "ok", !.result = result]

\* ------------------------------------------------------------ history store
MAX_HISTORY_SIZE == 100

\* A slice that keeps the whole list.
TakeAll(s, n) == s

\* s.slice(0, n)
Take(s, n) == IF Len(s) <= n THEN s ELSE SubSeq(s, 1, n)

\* A store that puts the new item at the end of the list.
addHistoryItemAtEnd(h, item, fresh) ==
  Take(h \o << [item EXCEPT !.id = IF @ # 0 THEN @ ELSE fresh, !.timestamp = now] >>,
       MAX_HISTORY_SIZE)

\* The earlier store: { ...item, id: generateId(), timestamp: Date.now() }; the
\* id the caller put into the item is overwritten.  fresh is what generateId()
\* returns.
addHistoryItemEarlier(h, item, fresh) ==
  Take(<< [item EXCEPT !.id = fresh, !.timestamp = now] >> \o h, MAX_HISTORY_SIZE)

\* { ...item, id: item.id || generateId(), timestamp: Date.now() } (id 0: the
\* item carries none), then [newItem, ...state.history].slice(0, MAX_HISTORY_SIZE)
addHistoryItem(h, item, fresh) ==
  Take(<< [item EXCEPT !.id = IF @ # 0 THEN @ ELSE fresh, !.timestamp = now] >> \o h,
       MAX_HISTORY_SIZE)

\* addHistoryItem of the store that is loaded.
storeAddHistoryItem(h, item, fresh) ==
  IF storeVersion = "earlier" THEN addHistoryItemEarlier(h, item, fresh)
  ELSE addHistoryItem(h, item, fresh)

\* { ...prev, ...analysis }: a key the analysis carries replaces the old one.
Merge(prev, analysis) ==
  [t \in AnalysisTypes |-> IF analysis[t] # 0 THEN analysis[t] ELSE prev[t]]

\* { ...item, ...updates }: every field the updates carry replaces the item's;
\* the keys of an analysis are kept together in the field analysis.
Spread(item, updates) ==
  [f \in DOMAIN item |->
     IF f \notin DOMAIN updates THEN item[f]
     ELSE IF f = "analysis" THEN Merge(item[f], updates[f])
     ELSE updates[f]]

\* history.map(item => item.id === id ? { ...item, ...updates } : item)
updateHistoryItem(h, id, updates) ==
  [k \in DOMAIN h |-> IF h[k].id = id THEN Spread(h[k], updates) ELSE h[k]]

\* A store that deletes the first item with the id only.
deleteFirstHistoryItem(h, id) ==
  IF \E k \in DOMAIN h : h[k].id = id
    THEN LET k == CHOOSE j \in DOMAIN h : h[j].id = id /\ \A l \in 1 .. (j - 1) : h[l].id # id
         IN  SubSeq(h, 1, k - 1) \o SubSeq(h, k + 1, Len(h))
    ELSE h

IdIsNot(id, item) == item.id # id

\* history.filter((item) => item.id !== id)
deleteHistoryItem(h, id) ==
  LET Keep(item) == IdIsNot(id, item) IN SelectSeq(h, Keep)

\* set({ history: [] })
clearHistory == << >>

\* ------------------------------------------------------------- the component
\* A trim that leaves the text as it is.
TrimNone(t) == t

\* text.trim(): leading and trailing blanks removed.
RECURSIVE TrimLeft(_)
TrimLeft(t) == IF t # <<>> /\ Head(t) = " " THEN TrimLeft(Tail(t)) ELSE t

RECURSIVE TrimRight(_)
TrimRight(t) ==
  IF t # <<>> /\ t[Len(t)] = " " THEN TrimRight(SubSeq(t, 1, Len(t) - 1)) ELSE t

Trim(t) == TrimRight(TrimLeft(t))

Live == { id \in DOMAIN ops : ops[id].pc # "idle" }

\* What the last settlement records of the operation id that ended as o.
Settlement(id, o, toast) ==
  LET r == routingResult(o)
  IN  [ op |-> id, kind |-> o.kind, outcome |-> o.pc,
        err |-> IF o.pc = "thrown" THEN o.err ELSE NoError,
        resultStep |-> IF o.pc = "returned" THEN r.resultStep ELSE -1,
        providerUsed |-> IF o.pc = "returned" THEN r.providerUsed ELSE NoProvider,
        modelUsed |-> IF o.pc = "returned" THEN r.modelUsed ELSE "none",
        invoked |-> o.invoked, dispatched |-> o.dispatched, attempts |-> o.attempts,
        log |-> o.log,
        cause |-> o.cause, dispatchedAfterAbort |-> o.dispatchedAfterAbort,
        signalAborted |-> o.signalAborted, mounted |-> isMountedRef,
        toast |-> toast ]

\* A handler that replaces the controller in the ref without aborting it.
abortControllerNever(os, id) == os

\* controller.abort() on the controller of operation id: its signal becomes
\* aborted; a registered listener aborts the pending request, whose promise is
\* rejected.  Operations that have settled, or that are reading a response
\* body (listener removed), only see the flag.
abortController(os, id) ==
  IF id = 0 \/ os[id].pc = "idle" THEN os
  ELSE IF os[id].pc = "fetch" /\ ~os[id].signalAborted
    THEN [os EXCEPT ![id].signalAborted = TRUE, ![id].cause = "cancel"]
    ELSE [os EXCEPT ![id].signalAborted = TRUE]

\* The operation, if any, whose pending fetch abort() on controller id rejects.
abortRejects(os, id) ==
  IF id # 0 /\ os[id].pc = "fetch" /\ os[id].listener /\ ~os[id].signalAborted THEN id ELSE 0

\* A handler that goes on after its await whether it is mounted or not.
stillMountedAlways(mounted) == TRUE

\* The test after the await of performRouting: if (!isMountedRef.current)
\* return in handleTranslate, if (isMountedRef.current) { ... } in
\* handleGranularAnalyze.
stillMounted(mounted) == mounted

\* catch of handleTranslate: if (!isMountedRef.current || AbortError) return
translateCatchSilent(error, mounted) ==
  ~mounted \/ error.name = "AbortError"

\* catch of handleGranularAnalyze: console.warn(error); toast.error('分析失敗')
analyzeCatchSilent(error, mounted) == FALSE

\* A handler that records the provider and the model of step 0, the ones
\* selected, whichever step answered.
historyItemOfStepZero(id, o, r) ==
  [id |-> id, sourceText |-> o.sourceText, targetText |-> o.result,
   provider |-> settings.routingSteps[0].provider, model |-> settings.routingSteps[0].model,
   analysis |-> NoAnalysis, timestamp |-> 0]

\* addHistoryItem({ id: historyId, sourceText, targetText, ...,
\*                  provider: providerUsed, model: modelUsed })
historyItem(id, o, r) ==
  [id |-> id, sourceText |-> o.sourceText, targetText |-> o.result,
   provider |-> r.providerUsed, model |-> r.modelUsed,
   analysis |-> NoAnalysis, timestamp |-> 0]

\* The promise of handleTranslate for operation id settles as o: the code after
\* the await of performRouting, its catch and its finally.
SettleTranslate(id, o) ==
  LET ok == o.pc = "returned" /\ stillMounted(isMountedRef)
      failed == o.pc = "thrown" /\ ~translateCatchSilent(o.err, isMountedRef)
      r == routingResult(o)
  IN  /\ response' = IF ok THEN [translation |-> o.result, original |-> o.sourceText,
                                 analysis |-> NoAnalysis]
                          ELSE response
      /\ loading' = IF ok \/ failed THEN FALSE ELSE loading
      /\ currentHistoryId' = IF ok THEN id ELSE currentHistoryId
      /\ history' = IF ok
                      THEN storeAddHistoryItem(history, historyItem(id, o, r), -id)
                      ELSE history
      /\ activeProvider' = NoProvider
      /\ last' = Settlement(id, o, IF failed THEN "error" ELSE "none")
      /\ UNCHANGED analyzingType

\* The analysis object the adapter returned for an analysis operation.
analysisOf(o) ==
  [t \in AnalysisTypes |-> IF o.result # 0 /\ t = o.type THEN o.response.translation ELSE 0]

\* The promise of handleGranularAnalyze for operation id settles as o.
SettleAnalyze(id, o) ==
  LET ok == o.pc = "returned" /\ stillMounted(isMountedRef)
      failed == o.pc = "thrown" /\ ~analyzeCatchSilent(o.err, isMountedRef)
  IN  /\ response' = IF ok /\ response # NoResponse
                          THEN [response EXCEPT !.analysis = Merge(@, analysisOf(o))]
                          ELSE response
      /\ history' = IF ok /\ o.historyId # 0
                      THEN updateHistoryItem(history, o.historyId, [analysis |-> analysisOf(o)])
                      ELSE history
      /\ analyzingType' = IF isMountedRef THEN "null" ELSE analyzingType
      /\ activeProvider' = NoProvider
      /\ last' = Settlement(id, o, IF failed THEN "error" ELSE "none")
      /\ UNCHANGED << loading, currentHistoryId >>

\* Operation id has run up to o: it is suspended on a request, or it settled.
Resume(id, o) ==
  IF o.pc \in {"returned", "thrown"}
    THEN /\ ops' = [ops EXCEPT ![id] = IdleOp]
         /\ IF o.kind = "translate" THEN SettleTranslate(id, o) ELSE SettleAnalyze(id, o)
    ELSE /\ ops' = [ops EXCEPT ![id] = [o EXCEPT !.setAP = "unchanged"]]
         /\ activeProvider' = IF o.setAP = "unchanged" THEN activeProvider ELSE o.setAP
         /\ UNCHANGED << response, loading, currentHistoryId, history, analyzingType, last >>

\* ----------------------------------------------------------------- actions
\* A user event reaches a handler only while the component is mounted and no
\* promise continuation is pending.
Interactive == isMountedRef /\ aborting = 0

NewOp(kind) ==
  [IdleOp EXCEPT !.kind = kind, !.sourceText = sourceText]

\* onChange of the source textarea: setSourceText(e.target.value)
SetSourceText(t) ==
  /\ Interactive
  /\ t # sourceText
  /\ sourceText' = t
  /\ UNCHANGED << panelVars, storeVersion, now, call, settings, loading, response, analyzingType, activeProvider,
                  currentHistoryId, translationControllerRef, isMountedRef, history,
                  ops, nOps, budget, aborting, last >>

\* handleTranslate up to its await: the guard, the state resets, the abort of
\* the controller in the ref, the new controller and the loop of
\* performRouting up to the first request.  With no usable key the loop throws
\* at once and the catch and finally run in the same task.
HandleTranslate ==
  /\ Interactive
  /\ nOps < budget
  /\ Trim(sourceText) # <<>>
  /\ ~loading
  /\ LET id == nOps + 1
         aborted == abortController(ops, translationControllerRef)
         o == performRouting(NewOp("translate"), 0)
         failed == ~translateCatchSilent(o.err, isMountedRef)
     IN  /\ nOps' = id
         /\ translationControllerRef' = id
         /\ aborting' = abortRejects(ops, translationControllerRef)
         /\ response' = NoResponse
         /\ IF o.pc = "thrown"
              THEN /\ ops' = aborted
                   /\ loading' = ~failed
                   /\ activeProvider' = NoProvider
                   /\ last' = Settlement(id, o, IF failed THEN "error" ELSE "none")
              ELSE /\ ops' = [aborted EXCEPT ![id] = [o EXCEPT !.setAP = "unchanged"]]
                   /\ loading' = TRUE
                   /\ activeProvider' = o.setAP
                   /\ last' = NoSettlement
  /\ UNCHANGED << panelVars, storeVersion, now, call, settings, sourceText, analyzingType, currentHistoryId, isMountedRef,
                  history, budget >>

\* handleGranularAnalyze up to its await: the guard, setAnalyzingType, the new
\* controller (the one in the ref is replaced, not aborted) and the loop of
\* performRouting up to the first request.
HandleGranularAnalyze(type) ==
  /\ Interactive
  /\ nOps < budget
  /\ response # NoResponse
  /\ response.translation # 0
  /\ analyzingType = "null"
  /\ LET id == nOps + 1
         o == performRouting([NewOp("analyze") EXCEPT !.type = type, !.response = response,
                                                     !.historyId = currentHistoryId], 0)
     IN  /\ nOps' = id
         /\ translationControllerRef' = id
         /\ IF o.pc = "thrown"
              THEN /\ ops' = ops
                   /\ analyzingType' = "null"
                   /\ activeProvider' = NoProvider
                   /\ last' = Settlement(id, o, "error")
              ELSE /\ ops' = [ops EXCEPT ![id] = [o EXCEPT !.setAP = "unchanged"]]
                   /\ analyzingType' = type
                   /\ activeProvider' = o.setAP
                   /\ last' = NoSettlement
  /\ UNCHANGED << panelVars, storeVersion, now, call, settings, sourceText, loading, response, currentHistoryId, isMountedRef,
                  history, budget, aborting >>

\* The cleanup of the mount effect: isMountedRef.current = false and the abort
\* of the controller in the ref.
Unmount ==
  /\ Interactive
  /\ isMountedRef' = FALSE
  /\ ops' = abortController(ops, translationControllerRef)
  /\ aborting' = abortRejects(ops, translationControllerRef)
  /\ UNCHANGED << panelVars, storeVersion, now, call, settings, sourceText, loading, response, analyzingType, activeProvider,
                  currentHistoryId, translationControllerRef, history, nOps, budget, last >>

\* The fetch promise of an aborted request rejects with an AbortError; the
\* catch of fetchWithTimeout clears the timer, removes the listener and
\* rethrows, and the error reaches the catch of performRouting.
AbortSettle ==
  /\ aborting # 0
  /\ aborting' = 0
  /\ Resume(aborting, catchStep(ops[aborting], AbortError(ops[aborting].i)))
  /\ UNCHANGED << panelVars, storeVersion, now, call, settings, sourceText, translationControllerRef, isMountedRef, nOps, budget >>

\* The vendor answers the request of operation id with an HTTP status:
\* fetchWithTimeout clears its timer, removes its listener and returns the
\* response; callApi then reads the body (res.json(), or response.text() in
\* handleAPIError when !res.ok).
FetchResolve(id, status) ==
  /\ aborting = 0
  /\ ops[id].pc = "fetch"
  /\ ops' = [ops EXCEPT ![id] = [clearTimer(ops[id]) EXCEPT
                                    !.pc = IF status = 200 THEN "okBody" ELSE "errBody",
                                    !.status = status]]
  /\ UNCHANGED << panelVars, storeVersion, now, call, settings, sourceText, loading, response, analyzingType, activeProvider,
                  currentHistoryId, translationControllerRef, isMountedRef, history,
                  nOps, budget, aborting, last >>

\* The request of operation id fails in the network: fetch rejects with a
\* TypeError, which fetchWithTimeout rethrows.
FetchFail(id) ==
  /\ aborting = 0
  /\ ops[id].pc = "fetch"
  /\ Resume(id, catchStep(ops[id], NetworkError(ops[id].i)))
  /\ UNCHANGED << panelVars, storeVersion, now, call, settings, sourceText, translationControllerRef, isMountedRef, nOps,
                  budget, aborting >>

\* setTimeout(() => controller.abort(), timeout) fires for operation id: the
\* request is aborted and fetch rejects with an AbortError, which
\* fetchWithTimeout rethrows as it is.
Timeout(id) ==
  /\ aborting = 0
  /\ ops[id].pc = "fetch"
  /\ ops[id].timer
  /\ Resume(id, catchStep([ops[id] EXCEPT !.cause = "timeout"], AbortError(ops[id].i)))
  /\ UNCHANGED << panelVars, storeVersion, now, call, settings, sourceText, translationControllerRef, isMountedRef, nOps,
                  budget, aborting >>

\* handleAPIError has read the body of a non-2xx response (a failed read is
\* swallowed) and throws new LLMError(message, providerName, response.status).
ErrBodyDone(id) ==
  /\ aborting = 0
  /\ ops[id].pc = "errBody"
  /\ Resume(id, catchStep(ops[id], LLMError(ops[id].status, ops[id].i)))
  /\ UNCHANGED << panelVars, storeVersion, now, call, settings, sourceText, translationControllerRef, isMountedRef, nOps,
                  budget, aborting >>

\* res.json() of a 2xx response settles: with the parsed body the adapter
\* returns its result (parsed: the content carried the analysis asked for);
\* a body that is not JSON makes res.json() throw.
OkBodyDone(id, body) ==
  /\ aborting = 0
  /\ ops[id].pc = "okBody"
  /\ Resume(id, IF body = "invalid"
                  THEN catchStep(ops[id], JsonError(ops[id].i))
                  ELSE returnStep(ops[id], IF body = "empty" THEN 0 ELSE id))
  /\ UNCHANGED << panelVars, storeVersion, now, call, settings, sourceText, translationControllerRef, isMountedRef, nOps,
                  budget, aborting >>

\* ------------------------------------------------- the earlier provider layer
\* The earlier adapters (translate) and the earlier handleTranslate that calls
\* them: one provider, one model, and a fallback over models inside the
\* adapter.  An operation record is one call of translate; its index i is the
\* index in modelsToTry.
LegacyProviders == {"groq", "cerebras", "openai"}

\* settings.model: not set, or a model the fallback list does not name.
LegacyModels == {"", "custom-model"}

FALLBACK_MODELS ==
  [ groq |-> << "llama-3.3-70b-versatile", "llama-3.1-8b-instant", "llama3-70b-8192" >>,
    cerebras |-> << "llama-3.3-70b", "llama3.1-8b" >> ]

MAX_RATE_LIMIT_RETRIES == 2

\* this.config.model || '<the adapter's default>'
requestedModel ==
  IF settings.model # "" THEN settings.model
  ELSE CASE settings.provider = "groq" -> "llama-3.3-70b-versatile"
         [] settings.provider = "cerebras" -> "llama-3.3-70b"
         [] OTHER -> "gpt-4o-mini"

IsNotRequested(m) == m # requestedModel

\* [requestedModel, ...FALLBACK_MODELS.x.filter(m => m !== requestedModel)];
\* the adapters without a fallback list send the requested model only.
modelsToTry ==
  IF settings.provider \in DOMAIN FALLBACK_MODELS
    THEN << requestedModel >> \o SelectSeq(FALLBACK_MODELS[settings.provider], IsNotRequested)
    ELSE << requestedModel >>

\* An Error of the earlier layer: a message and no status property.
LegacyError(message, i) ==
  [name |-> "Error", message |-> message, status |-> 0, step |-> i]

\* The earlier handleAPIError: throw new Error(errorMessage), the message
\* chosen by the status.
legacyHandleAPIError(status, i) ==
  LegacyError(IF status = 401 THEN "Invalid API key"
              ELSE IF status = 429 THEN "Rate limit exceeded"
              ELSE IF status >= 500 THEN "Server error"
              ELSE "API error", i)

\* The earlier fetchWithTimeout up to its await; an AbortError under an aborted
\* external signal is rethrown as it is.
legacyFetchWithTimeout(o) ==
  IF o.signalAborted
    THEN [o EXCEPT !.pc = "rejected", !.err = AbortError(o.i), !.cause = "cancel",
                   !.timer = FALSE, !.listener = FALSE]
    ELSE [o EXCEPT !.pc = "fetch", !.timer = TRUE, !.timeout = API_TIMEOUT_EARLIER,
                   !.listener = TRUE, !.dispatched = @ \cup {o.i}]

\* An adapter without the fallback over models: the first failure is thrown.
translateGoesOnNever(i) == FALSE

\* catch of translate: the error is thrown on the last model
\* (i >= modelsToTry.length - 1 || i >= MAX_RATE_LIMIT_RETRIES), swallowed
\* otherwise.
translateGoesOn(i) == ~(i >= Len(modelsToTry) - 1 \/ i >= MAX_RATE_LIMIT_RETRIES)

RECURSIVE translate(_, _)
RECURSIVE translateCatch(_, _)

\* for (let i = 0; i < modelsToTry.length && i <= MAX_RATE_LIMIT_RETRIES; i++)
\* from index i up to the next suspension, and the throw after the loop.
translate(o, i) ==
  IF ~(i < Len(modelsToTry) /\ i <= MAX_RATE_LIMIT_RETRIES)
    THEN [o EXCEPT !.pc = "thrown",
                   !.err = IF o.lastError # NoError THEN o.lastError
                           ELSE LegacyError("All models failed", -1)]
    ELSE LET started == [o EXCEPT !.i = i, !.invoked = @ \cup {i},
                                  !.attempts = Append(@, i)]
             f == legacyFetchWithTimeout(started)
         IN  IF f.pc = "rejected" THEN translateCatch(f, f.err) ELSE f

translateCatch(o, error) ==
  LET o1 == [o EXCEPT !.lastError = error,
                      !.log[o.i] = IF @ = "none" THEN Outcome(error) ELSE @,
                      !.timer = FALSE, !.listener = FALSE]
  IN  IF translateGoesOn(o.i) THEN translate(o1, o.i + 1)
      ELSE [o1 EXCEPT !.pc = "thrown", !.err = error]

\* catch of the earlier handleTranslate: the notification is chosen by the
\* text of the message.
legacyToast(error) ==
  IF error.message = "Rate limit exceeded" THEN "rateLimit"
  ELSE IF error.message = "Invalid API key" THEN "invalidKey"
  ELSE "error"

LegacySettlement(id, o, toast) ==
  [ op |-> id, kind |-> o.kind, outcome |-> o.pc,
    err |-> IF o.pc = "thrown" THEN o.err ELSE NoError,
    resultStep |-> IF o.pc = "returned" THEN o.i ELSE -1,
    providerUsed |-> IF o.pc = "returned" THEN settings.provider ELSE NoProvider,
    modelUsed |-> IF o.pc = "returned" THEN settings.model ELSE "none",
    invoked |-> o.invoked, dispatched |-> o.dispatched, attempts |-> o.attempts,
    log |-> o.log,
    cause |-> o.cause, dispatchedAfterAbort |-> o.dispatchedAfterAbort,
    signalAborted |-> o.signalAborted, mounted |-> isMountedRef,
    toast |-> toast ]

\* The call of translate for operation id has run up to o: it is suspended, or
\* the earlier handleTranslate goes on after its await (success, catch,
\* finally).
LegacyResume(id, o) ==
  IF o.pc \in {"returned", "thrown"}
    THEN LET ok == o.pc = "returned" /\ isMountedRef
             silent == ~isMountedRef \/ o.err.name = "AbortError"
         IN  /\ ops' = [ops EXCEPT ![id] = IdleOp]
             /\ response' = IF ok THEN [translation |-> o.result, original |-> o.sourceText,
                                        analysis |-> NoAnalysis]
                                 ELSE response
             /\ history' = IF ok
                             THEN storeAddHistoryItem(history,
                                    [id |-> 0, sourceText |-> o.sourceText,
                                     targetText |-> o.result,
                                     provider |-> settings.provider, model |-> settings.model,
                                     analysis |-> NoAnalysis, timestamp |-> 0], -id)
                             ELSE history
             /\ loading' = IF isMountedRef THEN FALSE ELSE loading
             /\ translationControllerRef' = 0
             /\ last' = LegacySettlement(id, o,
                          IF o.pc = "thrown" /\ ~silent THEN legacyToast(o.err) ELSE "none")
    ELSE /\ ops' = [ops EXCEPT ![id] = o]
         /\ UNCHANGED << response, history, loading, translationControllerRef, last >>

\* The earlier handleTranslate up to its await.  Without a key it notifies and
\* returns before anything else.
LegacyHandleTranslate ==
  /\ Interactive
  /\ nOps < budget
  /\ Trim(sourceText) # <<>>
  /\ IF ~settings.apiKeys[settings.provider]
       THEN /\ nOps' = nOps + 1
            /\ last' = [NoSettlement EXCEPT !.op = nOps + 1, !.kind = "legacy",
                                            !.outcome = "refused", !.toast = "noKey"]
            /\ UNCHANGED << loading, response, translationControllerRef, ops, aborting >>
       ELSE /\ ~loading
            /\ LET id == nOps + 1
                   o == translate(NewOp("legacy"), 0)
               IN  /\ nOps' = id
                   /\ loading' = TRUE
                   /\ response' = NoResponse
                   /\ translationControllerRef' = id
                   /\ ops' = [abortController(ops, translationControllerRef) EXCEPT ![id] = o]
                   /\ aborting' = abortRejects(ops, translationControllerRef)
                   /\ last' = NoSettlement
  /\ UNCHANGED << panelVars, storeVersion, now, call, settings, sourceText, analyzingType, activeProvider, currentHistoryId,
                  isMountedRef, history, budget >>

\* The fetch promise of the aborted request rejects; the catch of translate
\* goes on with the models that are left, each refused under the aborted
\* signal, and throws the AbortError on the last one.
LegacyAbortSettle ==
  /\ aborting # 0
  /\ aborting' = 0
  /\ LegacyResume(aborting, translateCatch(ops[aborting], AbortError(ops[aborting].i)))
  /\ UNCHANGED << panelVars, storeVersion, now, call, settings, sourceText, analyzingType, activeProvider, currentHistoryId,
                  isMountedRef, nOps, budget >>

\* The vendor answers the request of the model at index i.  A 429 on a model
\* that is not the last of the list starts the delay before the next model;
\* any other non-2xx status throws in handleAPIError, into the catch of
\* translate; a 2xx response has its body read.
LegacyFetchResolve(id, status) ==
  /\ aborting = 0
  /\ ops[id].pc = "fetch"
  /\ LET o == [clearTimer(ops[id]) EXCEPT
                  !.status = status,
                  !.log[ops[id].i] = IF status = 200 THEN @ ELSE ToString(status)]
     IN  LegacyResume(id,
           IF status = 429 /\ o.i < Len(modelsToTry) - 1 THEN [o EXCEPT !.pc = "delay"]
           ELSE IF status # 200 THEN translateCatch(o, legacyHandleAPIError(status, o.i))
           ELSE [o EXCEPT !.pc = "okBody"])
  /\ UNCHANGED << panelVars, storeVersion, now, call, settings, sourceText, analyzingType, activeProvider, currentHistoryId,
                  isMountedRef, nOps, budget, aborting >>

\* setTimeout(resolve, RATE_LIMIT_RETRY_DELAY * (i + 1)) fires: continue.
LegacyDelayDone(id) ==
  /\ aborting = 0
  /\ ops[id].pc = "delay"
  /\ LegacyResume(id, translate(ops[id], ops[id].i + 1))
  /\ UNCHANGED << panelVars, storeVersion, now, call, settings, sourceText, analyzingType, activeProvider, currentHistoryId,
                  isMountedRef, nOps, budget, aborting >>

LegacyFetchFail(id) ==
  /\ aborting = 0
  /\ ops[id].pc = "fetch"
  /\ LegacyResume(id, translateCatch(ops[id], NetworkError(ops[id].i)))
  /\ UNCHANGED << panelVars, storeVersion, now, call, settings, sourceText, analyzingType, activeProvider, currentHistoryId,
                  isMountedRef, nOps, budget, aborting >>

\* The timer of the earlier fetchWithTimeout fires: the AbortError of a
\* request whose external signal is not aborted becomes
\* new Error('Request timeout. Please try again.').
LegacyTimeout(id) ==
  /\ aborting = 0
  /\ ops[id].pc = "fetch"
  /\ ops[id].timer
  /\ LegacyResume(id, translateCatch([ops[id] EXCEPT !.cause = "timeout"],
                                     LegacyError("Request timeout", ops[id].i)))
  /\ UNCHANGED << panelVars, storeVersion, now, call, settings, sourceText, analyzingType, activeProvider, currentHistoryId,
                  isMountedRef, nOps, budget, aborting >>

\* getResponseBody settles: the content is parsed and returned; an empty
\* content throws 'No content received from API'; a body that is not JSON
\* makes response.json() throw and response.text() reject on the used body.
LegacyOkBodyDone(id, body) ==
  /\ aborting = 0
  /\ ops[id].pc = "okBody"
  /\ LegacyResume(id,
       IF body = "invalid" THEN translateCatch(ops[id], BodyUsedError(ops[id].i))
       ELSE IF body = "empty"
         THEN translateCatch(ops[id], LegacyError("No content received", ops[id].i))
       ELSE [ops[id] EXCEPT !.pc = "returned", !.log[ops[id].i] = "ok", !.result = id])
  /\ UNCHANGED << panelVars, storeVersion, now, call, settings, sourceText, analyzingType, activeProvider, currentHistoryId,
                  isMountedRef, nOps, budget, aborting >>

\* ------------------------------------------------------------ specifications
Settings ==
  [ routingSteps : [Steps -> StepChoices],
    routingCount : MinRoutingCount .. MaxRoutingCount,
    apiKeys : [Providers -> BOOLEAN] ]

InitWithStore(configs, texts, n, version) ==
  /\ storeVersion = version
  /\ now = 0
  /\ call = NoCall
  /\ settings \in configs
  /\ sourceText \in texts
  /\ loading = FALSE
  /\ response = NoResponse
  /\ analyzingType = "null"
  /\ activeProvider = NoProvider
  /\ currentHistoryId = 0
  /\ translationControllerRef = 0
  /\ isMountedRef = TRUE
  /\ history = <<>>
  /\ ops = [id \in OpIds |-> IdleOp]
  /\ nOps = 0
  /\ budget = n
  /\ aborting = 0
  /\ last = NoSettlement
  /\ localSourceLanguage = "japanese"
  /\ localTargetLanguage = "english"
  /\ localSettings = NoLocalSettings
  /\ activeSlotIndex = 0
  /\ useCustomModel = FALSE
  /\ customModel = ""

InitWith(configs, texts, n) == InitWithStore(configs, texts, n, "current")

\* What the network, the timer and the body reads may do to operation id.
NetworkOf(id, statuses) ==
  \/ \E status \in statuses : FetchResolve(id, status)
  \/ FetchFail(id)
  \/ Timeout(id)
  \/ ErrBodyDone(id)
  \/ \E body \in {"parsed", "empty", "invalid"} : OkBodyDone(id, body)

Network(statuses) == \E id \in OpIds : NetworkOf(id, statuses)

\* The component under the configurations of a two-provider fallback chain.
ComponentSettings ==
  { c \in Settings :
      /\ c.routingSteps = [s \in Steps |-> IF s % 2 = 0
                                             THEN [provider |-> "groq", model |-> "llama-3.3-70b-versatile"]
                                             ELSE [provider |-> "gemini", model |-> "gemini-2.5-flash"]]
      /\ c.routingCount <= 2 }

Init == InitWith(ComponentSettings, {<<>>}, MaxOps)

Next ==
  \/ \E t \in Texts : SetSourceText(t)
  \/ HandleTranslate
  \/ \E type \in AnalysisTypes : HandleGranularAnalyze(type)
  \/ Unmount
  \/ AbortSettle
  \/ Network(ComponentStatuses)

Spec == Init /\ [][Next]_vars

\* The component with what the event loop guarantees: a rejected promise is
\* continued, and a request in flight or a body being read comes to an end
\* (an answer, a network failure or, at the latest, the timer of
\* fetchWithTimeout).  The user owes no step.
SpecFair ==
  /\ Spec
  /\ WF_vars(AbortSettle)
  /\ \A id \in OpIds : WF_vars(NetworkOf(id, ComponentStatuses))

\* The component with every key set, the user going from one source text to
\* another between translations.
EditedTexts == { <<"a">>, <<"b">> }

InitEdits ==
  InitWith({ c \in ComponentSettings : \A p \in Providers : c.apiKeys[p] }, {<<"a">>}, MaxOps)

NextEdits ==
  \/ \E t \in EditedTexts : SetSourceText(t)
  \/ HandleTranslate
  \/ \E type \in AnalysisTypes : HandleGranularAnalyze(type)
  \/ Unmount
  \/ AbortSettle
  \/ Network(ComponentStatuses)

SpecEdits == InitEdits /\ [][NextEdits]_vars

\* One routing operation under every configuration of the plan, the source
\* text already typed.
InitRouter == InitWith(Settings, { t \in Texts : Trim(t) # <<>> }, RouterOps)

NextRouter ==
  \/ HandleTranslate
  \/ Unmount
  \/ AbortSettle
  \/ Network(Statuses)

SpecRouter == InitRouter /\ [][NextRouter]_vars

\* The earlier provider layer: one call of translate under every setting of
\* provider, model and keys.
LegacySettings ==
  [ provider : LegacyProviders,
    model : LegacyModels,
    apiKeys : [LegacyProviders -> BOOLEAN] ]

InitLegacy == InitWith(LegacySettings, { t \in Texts : Trim(t) # <<>> }, RouterOps)

LegacyNetwork ==
  \E id \in OpIds :
    \/ \E status \in Statuses : LegacyFetchResolve(id, status)
    \/ LegacyDelayDone(id)
    \/ LegacyFetchFail(id)
    \/ LegacyTimeout(id)
    \/ \E body \in {"parsed", "empty", "invalid"} : LegacyOkBodyDone(id, body)

NextLegacy ==
  \/ LegacyHandleTranslate
  \/ Unmount
  \/ LegacyAbortSettle
  \/ LegacyNetwork

SpecLegacy == InitLegacy /\ [][NextLegacy]_vars

\* Both provider layers of the code base, each behaviour running one of them.
IsLegacy == "model" \in DOMAIN settings

InitVersions == InitRouter \/ InitLegacy

NextVersions ==
  \/ ~IsLegacy /\ NextRouter
  \/ IsLegacy /\ NextLegacy

SpecVersions == InitVersions /\ [][NextVersions]_vars

\* The component over either version of the history store.
InitStores ==
  \E version \in {"current", "earlier"} :
    InitWithStore(ComponentSettings, {<<>>}, StoreOps, version)

SpecStores == InitStores /\ [][Next]_vars

\* ----------------------------------------------------------- history store
\* The store on its own: its four methods called in any order while the clock
\* goes on.
StoreIds == {1}

\* The ids update and delete are called with: one a caller gave, one
\* generateId() made, and one no item has.
StoreCallIds == StoreIds \cup {-1, 9}

\* generateId(): an id no item of the list has.
generateId(h) ==
  LET used == { h[k].id : k \in DOMAIN h }
  IN  - (CHOOSE n \in 1 .. (Len(h) + 1) :
           /\ (- n) \notin used
           /\ \A m \in 1 .. (n - 1) : (- m) \in used)

\* What handleTranslate puts into addHistoryItem, id 0 when it gives none.
StoreItem(id) ==
  [id |-> id, sourceText |-> <<"a">>, targetText |-> 1, provider |-> "groq",
   model |-> "llama-3.3-70b-versatile", analysis |-> NoAnalysis, timestamp |-> 0]

\* Partial<TranslationHistoryItem>: an analysis, a timestamp, or an id, as the
\* object JSON.parse made of the model's answer may carry any key of an item.
StoreUpdates ==
  { [analysis |-> [t \in AnalysisTypes |-> IF t = "vocabulary" THEN 1 ELSE 0]] }
    \cup { [timestamp |-> t] : t \in 0 .. MaxClock }
    \cup { [id |-> i] : i \in StoreIds }

\* Date.now() goes on.
Tick ==
  /\ now < MaxClock
  /\ now' = now + 1
  /\ UNCHANGED << panelVars, storeVersion, call, settings, sourceText, loading, response, analyzingType,
                  activeProvider, currentHistoryId, translationControllerRef, isMountedRef,
                  history, ops, nOps, budget, aborting, last >>

StoreStep(h, c) ==
  /\ history' = h
  /\ call' = c
  /\ UNCHANGED << panelVars, storeVersion, now, settings, sourceText, loading, response, analyzingType,
                  activeProvider, currentHistoryId, translationControllerRef, isMountedRef,
                  ops, nOps, budget, aborting, last >>

StoreAdd(id) ==
  StoreStep(storeAddHistoryItem(history, StoreItem(id), generateId(history)),
            [fn |-> "addHistoryItem", id |-> id])

StoreUpdate(id, updates) ==
  StoreStep(updateHistoryItem(history, id, updates),
            [fn |-> "updateHistoryItem", id |-> id, updates |-> updates])

StoreDelete(id) ==
  StoreStep(deleteHistoryItem(history, id), [fn |-> "deleteHistoryItem", id |-> id])

StoreClear == StoreStep(clearHistory, [fn |-> "clearHistory"])

\* [...history].sort((a, b) => b.timestamp - a.timestamp): a stable sort, the
\* newest first.
RECURSIVE sortedHistory(_)
sortedHistory(h) ==
  IF h = << >> THEN << >>
  ELSE LET rest == sortedHistory(Tail(h))
           Newer(item) == item.timestamp > Head(h).timestamp
           NotNewer(item) == ~Newer(item)
       IN  SelectSeq(rest, Newer) \o << Head(h) >> \o SelectSeq(rest, NotNewer)

InitHistory ==
  InitWithStore({ c \in ComponentSettings : c.routingCount = 1 /\ \A p \in Providers : c.apiKeys[p] },
                {<<>>}, 0, "current")

NextHistory ==
  \/ Tick
  \/ \E id \in StoreIds \cup {0} : Len(history) < MaxHistoryLen /\ StoreAdd(id)
  \/ \E id \in StoreCallIds, updates \in StoreUpdates : StoreUpdate(id, updates)
  \/ \E id \in StoreCallIds : StoreDelete(id)
  \/ StoreClear

SpecHistory == InitHistory /\ [][NextHistory]_vars

\* The store filled up to its limit and beyond, under either version of it:
\* items are added without end, the first that was added is now and then
\* changed or deleted, and the history is cleared.
InitFullHistory ==
  \E version \in {"current", "earlier"} :
    InitWithStore({ c \in ComponentSettings : c.routingCount = 1 /\ \A p \in Providers : c.apiKeys[p] },
                  {<<>>}, 0, version)

NextFullHistory ==
  \/ StoreAdd(0)
  \/ StoreUpdate(-1, [analysis |-> [t \in AnalysisTypes |-> IF t = "vocabulary" THEN 1 ELSE 0]])
  \/ StoreDelete(-1)
  \/ StoreClear

SpecFullHistory == InitFullHistory /\ [][NextFullHistory]_vars

\* ------------------------------------------------- the response normalizer
\* A text an endpoint returns is a sequence of tokens: the code fence ```, the
\* tag json, a newline, a blank, the JSON tokens { } , the JSON number 1, a
\* member "key":value of an object, and x, characters that are no JSON.
Tok(t) == [t |-> t, key |-> "", value |-> 0]

Member(k, v) == [t |-> "member", key |-> k, value |-> v]

\* \s of a regular expression, the white space of trim() and of JSON.
IsSpace(tok) == tok.t \in {"sp", "nl"}

RECURSIVE trimStart(_)
trimStart(text) ==
  IF text # << >> /\ IsSpace(Head(text)) THEN trimStart(Tail(text)) ELSE text

RECURSIVE trimEnd(_)
trimEnd(text) ==
  IF text # << >> /\ IsSpace(text[Len(text)])
    THEN trimEnd(SubSeq(text, 1, Len(text) - 1))
    ELSE text

\* content.trim()
trimContent(text) == trimEnd(trimStart(text))

\* cleaned.startsWith('```')
startsWithFence(text) == text # << >> /\ text[1].t = "fence"

\* A replace that leaves the leading fence where it is.
stripLeadingFenceNever(text) == text

\* .replace(/^```(?:json)?\s*\n?/, ''): the fence at the start, the tag json
\* if it follows, and all the white space after them.
stripLeadingFence(text) ==
  IF ~startsWithFence(text) THEN text
  ELSE LET rest == Tail(text)
           untagged == IF rest # << >> /\ Head(rest).t = "json" THEN Tail(rest) ELSE rest
       IN  trimStart(untagged)

\* .replace(/\n?```\s*$/, ''): the fence that only white space follows, with
\* one newline before it if there is one, and everything after it.
stripTrailingFence(text) ==
  LET trimmed == trimEnd(text)
      n == Len(trimmed)
  IN  IF n = 0 \/ trimmed[n].t # "fence" THEN text
      ELSE IF n > 1 /\ trimmed[n - 1].t = "nl" THEN SubSeq(text, 1, n - 2)
      ELSE SubSeq(text, 1, n - 1)

\* What JSON.parse gives: an object (its members, by key), a value that is no
\* object, or a SyntaxError.
JsonObject(members) == [kind |-> "object", members |-> members, text |-> << >>]

JsonNumber == [kind |-> "number", members |-> << >>, text |-> << >>]

JsonSyntaxError == [kind |-> "error", members |-> << >>, text |-> << >>]

\* The members between the braces: member , member , ... , member
IsMemberList(inner) ==
  /\ Len(inner) % 2 = 1
  /\ \A k \in DOMAIN inner : inner[k].t = (IF k % 2 = 1 THEN "member" ELSE ",")

\* The object of a member list: of two members with one key the later counts.
MembersOf(inner) ==
  LET at == { k \in DOMAIN inner : inner[k].t = "member" }
      keys == { inner[k].key : k \in at }
      lastOf(key) == CHOOSE k \in at : /\ inner[k].key = key
                                       /\ \A j \in at : inner[j].key = key => j <= k
  IN  [key \in keys |-> inner[lastOf(key)].value]

\* JSON.parse of the tokens with no white space left among them.
parseTokens(toks) ==
  IF toks = << Tok("1") >> THEN JsonNumber
  ELSE IF Len(toks) >= 2 /\ toks[1].t = "{" /\ toks[Len(toks)].t = "}"
    THEN LET inner == SubSeq(toks, 2, Len(toks) - 1)
         IN  IF inner = << >> THEN JsonObject(<< >>)
             ELSE IF IsMemberList(inner) THEN JsonObject(MembersOf(inner))
             ELSE JsonSyntaxError
    ELSE JsonSyntaxError

NotSpace(tok) == ~IsSpace(tok)

\* A parser that takes no white space between the tokens.
JSONparseCompact(text) == parseTokens(text)

\* JSON.parse(text): white space between the tokens is skipped.
JSONparse(text) == parseTokens(SelectSeq(text, NotSpace))

\* An extraction that finds no braces.
extractJsonObjectNone(text) == << >>

\* extractJsonObject(text): text.slice(indexOf('{'), lastIndexOf('}') + 1), null
\* when there is no { or no }; null and the empty slice are both falsy for
\* the caller and are both the empty text here.
extractJsonObject(text) ==
  LET opens == { k \in DOMAIN text : text[k].t = "{" }
      closes == { k \in DOMAIN text : text[k].t = "}" }
  IN  IF opens = {} \/ closes = {} THEN << >>
      ELSE LET startIndex == CHOOSE k \in opens : \A j \in opens : k <= j
               lastIndex == CHOOSE k \in closes : \A j \in closes : j <= k
           IN  SubSeq(text, startIndex, lastIndex)

\* parseAnalysisResponse(content)
parseAnalysisResponse(content) ==
  LET trimmed == trimContent(content)
      cleaned == IF startsWithFence(trimmed)
                   THEN stripTrailingFence(stripLeadingFence(trimmed))
                   ELSE trimmed
      parsed == JSONparse(cleaned)
      extracted == extractJsonObject(content)
  IN  IF parsed.kind # "error" THEN parsed
      ELSE IF extracted # << >> /\ JSONparse(extracted).kind # "error"
        THEN JSONparse(extracted)
        ELSE JsonObject(<< >>)

\* { translation: content }
Literal(content) == [kind |-> "literal", members |-> << >>, text |-> content]

\* throw new Error('Empty response received from API')
EmptyResponseError == [kind |-> "thrown", members |-> << >>, text |-> << >>]

\* parseResponse(content) of the earlier provider layer
parseResponse(content) ==
  LET parsed == JSONparse(content)
  IN  IF parsed.kind = "error"
        THEN IF content = << >> THEN EmptyResponseError ELSE Literal(content)
        ELSE IF parsed.kind = "object" /\ "translation" \in DOMAIN parsed.members
          THEN parsed
          ELSE Literal(content)

\* The translation handleTranslate shows for the text translateText returned:
\* translatedText.trim()
translatedText(content) == Literal(trimContent(content))

\* JSON.stringify(x), or JSON.stringify(x, null, 2) with its newlines and
\* blanks, of the object whose members are x in the order of their insertion.
RECURSIVE serializeMembers(_, _)
serializeMembers(x, pretty) ==
  IF x = << >> THEN << >>
  ELSE (IF pretty THEN << Tok("nl"), Tok("sp"), Tok("sp") >> ELSE << >>)
       \o << Head(x) >>
       \o (IF Tail(x) # << >> THEN << Tok(",") >> ELSE IF pretty THEN << Tok("nl") >> ELSE << >>)
       \o serializeMembers(Tail(x), pretty)

serialize(x, pretty) == << Tok("{") >> \o serializeMembers(x, pretty) \o << Tok("}") >>

\* ------------------------------------------------------- the Gemini request
\* An adapter that puts the prompt in front of the user's text, in contents.
callGeminiInlined(systemPrompt, userText, jsonMode) ==
  [ contents |-> << [parts |-> << [text |-> systemPrompt], [text |-> userText] >>] >>,
    generationConfig |->
      [responseMimeType |-> IF jsonMode THEN "application/json" ELSE "text/plain"] ]

\* The body callGemini posts.
callGemini(systemPrompt, userText, jsonMode) ==
  [ contents |-> << [parts |-> << [text |-> userText] >>] >>,
    system_instruction |-> [parts |-> << [text |-> systemPrompt] >>],
    generationConfig |->
      [responseMimeType |-> IF jsonMode THEN "application/json" ELSE "text/plain"] ]

\* The body translate of the earlier Gemini adapter posts:
\* if (systemPrompt) body.systemInstruction = { parts: [{ text: systemPrompt }] }
legacyGeminiBody(systemPrompt, userText, jsonMode) ==
  LET body == [ contents |-> << [parts |-> << [text |-> userText] >>] >>,
                generationConfig |->
                  [responseMimeType |-> IF jsonMode THEN "application/json" ELSE "text/plain"] ]
  IN  IF systemPrompt # ""
        THEN [ contents |-> body.contents, generationConfig |-> body.generationConfig,
               systemInstruction |-> [parts |-> << [text |-> systemPrompt] >>] ]
        ELSE body

\* ------------------------------------------------ the adapters' pure parts
\* The texts an endpoint may answer with: what may stand before the core of
\* the answer, the core, and what may stand after it.
PayloadHeads ==
  { << >>, << Tok("sp") >>, << Tok("x") >>, << Tok("fence") >>,
    << Tok("fence"), Tok("json") >>, << Tok("fence"), Tok("nl") >>,
    << Tok("fence"), Tok("json"), Tok("nl") >>,
    << Tok("nl"), Tok("fence"), Tok("json"), Tok("sp") >> }

PayloadTails ==
  { << >>, << Tok("nl") >>, << Tok("x") >>, << Tok("fence") >>,
    << Tok("nl"), Tok("fence") >>, << Tok("nl"), Tok("fence"), Tok("sp") >> }

CoreTokens ==
  { Tok("{"), Tok("}"), Tok(","), Tok("1"), Tok("x"), Member("translation", 1) }

PayloadCores == UNION { [1 .. n -> CoreTokens] : n \in 0 .. MaxCore }

Payloads ==
  { head \o core \o tail : head \in PayloadHeads, core \in PayloadCores, tail \in PayloadTails }

\* The analysis objects of the round trip: members of distinct keys, in the
\* order of their insertion.
AnalysisValues == {1, 2}

AnalysisObjects ==
  { x \in UNION { [1 .. n -> { Member(k, v) : k \in AnalysisTypes, v \in AnalysisValues }] :
                    n \in 0 .. Cardinality(AnalysisTypes) } :
      \A i, j \in DOMAIN x : i # j => x[i].key # x[j].key }

\* The value JSON.parse is to give back for the object x.
ObjectOf(x) == JsonObject(MembersOf(x))

\* The prompts generateTranslationPrompt / generateSpecificAnalysisPrompt
\* build, and the texts of the user.
SystemPrompts == {"translation prompt", "analysis prompt"}

UserTexts == {"a", "Source: a Target: b"}

AdapterInputs ==
  { [fn |-> "content", content |-> p] : p \in Payloads }
    \cup { [fn |-> "analysis", x |-> x, pretty |-> b] : x \in AnalysisObjects, b \in BOOLEAN }
    \cup { [fn |-> "prompt", systemPrompt |-> sp, userText |-> ut, jsonMode |-> jm] :
             sp \in SystemPrompts, ut \in UserTexts, jm \in BOOLEAN }

InitAdapter ==
  /\ call \in AdapterInputs
  /\ storeVersion = "current"
  /\ now = 0
  /\ settings \in { c \in ComponentSettings : c.routingCount = 1 /\ \A p \in Providers : c.apiKeys[p] }
  /\ sourceText = << >>
  /\ loading = FALSE
  /\ response = NoResponse
  /\ analyzingType = "null"
  /\ activeProvider = NoProvider
  /\ currentHistoryId = 0
  /\ translationControllerRef = 0
  /\ isMountedRef = TRUE
  /\ history = << >>
  /\ ops = [id \in OpIds |-> IdleOp]
  /\ nOps = 0
  /\ budget = 0
  /\ aborting = 0
  /\ last = NoSettlement
  /\ localSourceLanguage = "japanese"
  /\ localTargetLanguage = "english"
  /\ localSettings = NoLocalSettings
  /\ activeSlotIndex = 0
  /\ useCustomModel = FALSE
  /\ customModel = ""

AdapterStep(c) ==
  /\ call' = c
  /\ UNCHANGED << panelVars, storeVersion, now, settings, sourceText, loading, response, analyzingType,
                  activeProvider, currentHistoryId, translationControllerRef, isMountedRef,
                  history, ops, nOps, budget, aborting, last >>

\* analyzeSpecific: return this.parseAnalysisResponse(result)
ParseAnalysisResponse ==
  /\ call.fn = "content"
  /\ AdapterStep([fn |-> "parseAnalysisResponse", content |-> call.content,
                  result |-> parseAnalysisResponse(call.content)])

\* The earlier translate: return this.parseResponse(content)
ParseResponse ==
  /\ call.fn = "content"
  /\ AdapterStep([fn |-> "parseResponse", content |-> call.content,
                  result |-> parseResponse(call.content)])

\* translateText returns the text; handleTranslate trims it.
TranslateText ==
  /\ call.fn = "content"
  /\ AdapterStep([fn |-> "translateText", content |-> call.content,
                  result |-> translatedText(call.content)])

\* The endpoint answers with the serialization of x; the adapter normalizes it.
RoundTrip ==
  /\ call.fn = "analysis"
  /\ AdapterStep([fn |-> "roundTrip", x |-> call.x,
                  content |-> serialize(call.x, call.pretty),
                  result |-> parseAnalysisResponse(serialize(call.x, call.pretty))])

CallGemini ==
  /\ call.fn = "prompt"
  /\ AdapterStep([fn |-> "callGemini", systemPrompt |-> call.systemPrompt,
                  userText |-> call.userText,
                  body |-> callGemini(call.systemPrompt, call.userText, call.jsonMode)])

LegacyGeminiTranslate ==
  /\ call.fn = "prompt"
  /\ AdapterStep([fn |-> "GeminiProvider.translate", systemPrompt |-> call.systemPrompt,
                  userText |-> call.userText,
                  body |-> legacyGeminiBody(call.systemPrompt, call.userText, call.jsonMode)])

NextAdapter ==
  \/ ParseAnalysisResponse
  \/ ParseResponse
  \/ TranslateText
  \/ RoundTrip
  \/ CallGemini
  \/ LegacyGeminiTranslate

SpecAdapter == InitAdapter /\ [][NextAdapter]_vars

\* ------------------------------------------------------- the settings store
\* The languages the selects offer, three of the six.
Languages == {"japanese", "english", "russian"}

OutputFormats == {"word", "sentence", "full", "custom"}

\* The formats the select of the panel offers.
OfferedFormats == {"word", "sentence", "full"}

FlagNames == {"showWordList", "showDetailedExplanation", "showNuanceExplanation"}

computeOutputFormat(showWordList, showDetailedExplanation, showNuanceExplanation) ==
  IF showWordList /\ ~showDetailedExplanation /\ ~showNuanceExplanation THEN "word"
  ELSE IF ~showWordList /\ showDetailedExplanation /\ ~showNuanceExplanation THEN "sentence"
  ELSE IF showWordList /\ showDetailedExplanation /\ showNuanceExplanation THEN "full"
  ELSE "custom"

\* The languages and the output options of the store's defaults.
defaultSettings ==
  [ sourceLanguage |-> "japanese", targetLanguage |-> "english",
    showWordList |-> TRUE, showDetailedExplanation |-> TRUE,
    showNuanceExplanation |-> TRUE, outputFormat |-> "full" ]

\* set(partial): the keys of the partial state replace those of the state.
Set(state, partial) ==
  [f \in DOMAIN state |-> IF f \in DOMAIN partial THEN partial[f] ELSE state[f]]

setSourceLanguage(state, sourceLanguage) == Set(state, [sourceLanguage |-> sourceLanguage])

setTargetLanguage(state, targetLanguage) == Set(state, [targetLanguage |-> targetLanguage])

setShowWordList(state, showWordList) ==
  Set(state, [ showWordList |-> showWordList,
               outputFormat |-> computeOutputFormat(showWordList,
                                                    state.showDetailedExplanation,
                                                    state.showNuanceExplanation) ])

setShowDetailedExplanation(state, showDetailedExplanation) ==
  Set(state, [ showDetailedExplanation |-> showDetailedExplanation,
               outputFormat |-> computeOutputFormat(state.showWordList,
                                                    showDetailedExplanation,
                                                    state.showNuanceExplanation) ])

setShowNuanceExplanation(state, showNuanceExplanation) ==
  Set(state, [ showNuanceExplanation |-> showNuanceExplanation,
               outputFormat |-> computeOutputFormat(state.showWordList,
                                                    state.showDetailedExplanation,
                                                    showNuanceExplanation) ])

\* The flags a preset stands for.
PresetFlags(outputFormat) ==
  [ showWordList |-> outputFormat \in {"word", "full"},
    showDetailedExplanation |-> outputFormat \in {"sentence", "full"},
    showNuanceExplanation |-> outputFormat = "full" ]

setOutputFormat(state, outputFormat) ==
  IF outputFormat \in {"word", "sentence", "full"}
    THEN Set(Set(state, PresetFlags(outputFormat)), [outputFormat |-> outputFormat])
    ELSE Set(state, [outputFormat |-> outputFormat])

reset(state) == Set(state, defaultSettings)

\* The store's setters by name.
setFlag(state, flag, show) ==
  CASE flag = "showWordList" -> setShowWordList(state, show)
    [] flag = "showDetailedExplanation" -> setShowDetailedExplanation(state, show)
    [] flag = "showNuanceExplanation" -> setShowNuanceExplanation(state, show)

\* ------------------------------------------------------- the settings panel
\* useState({ ...settings }) when the panel mounts.
initialLocalSettings(state) ==
  [f \in DOMAIN state \cup {"open"} |-> IF f = "open" THEN TRUE ELSE state[f]]

\* The models the panel lists for a provider, two and one of them.
providerModels(provider) ==
  IF provider = "groq" THEN {"llama-3.3-70b-versatile", "openai/gpt-oss-20b"}
  ELSE {"gemini-2.5-flash"}

defaultModel(provider) ==
  IF provider = "groq" THEN "llama-3.3-70b-versatile" ELSE "gemini-2.5-flash"

\* What is typed into the input of a custom model.
CustomModels == {"my-model"}

isCustomModel(slot) == slot.model \notin providerModels(slot.provider)

\* An updateActiveSlot that mirrors whichever slot it edits into provider and
\* model.
updateActiveSlotMirrored(prev, index, updates) ==
  LET nextSteps == [prev.routingSteps EXCEPT ![index] = Set(@, updates)]
  IN  Set(prev, [ routingSteps |-> nextSteps, provider |-> nextSteps[index].provider,
                  model |-> nextSteps[index].model ])

\* updateActiveSlot(updates) while slot index is the active one.
updateActiveSlot(prev, index, updates) ==
  LET nextSteps == [prev.routingSteps EXCEPT ![index] = Set(@, updates)]
  IN  IF index = 0
        THEN Set(prev, [ routingSteps |-> nextSteps, provider |-> nextSteps[0].provider,
                         model |-> nextSteps[0].model ])
        ELSE Set(prev, [routingSteps |-> nextSteps])

\* updateLocalSettings(updates): a format among the updates forces the flags
\* of a preset, flags among them have the format computed again.
updateLocalSettings(prev, updates) ==
  LET next == Set(prev, updates)
  IN  IF "outputFormat" \in DOMAIN updates
        THEN IF updates.outputFormat \in {"word", "sentence", "full"}
               THEN Set(next, PresetFlags(updates.outputFormat))
               ELSE next
        ELSE IF DOMAIN updates \cap FlagNames # {}
               THEN Set(next, [outputFormat |->
                                 computeOutputFormat(next.showWordList,
                                                     next.showDetailedExplanation,
                                                     next.showNuanceExplanation)])
               ELSE next

\* What handleSave writes of the languages and the output options, in the
\* order it calls the setters.
handleSave(state, local) ==
  LET s1 == setSourceLanguage(state, local.sourceLanguage)
      s2 == setTargetLanguage(s1, local.targetLanguage)
      s3 == setShowWordList(s2, local.showWordList)
      s4 == setShowDetailedExplanation(s3, local.showDetailedExplanation)
      s5 == setShowNuanceExplanation(s4, local.showNuanceExplanation)
  IN  setOutputFormat(s5, local.outputFormat)

\* The frame of a step of the settings store and its panels.
PanelStep(c) ==
  /\ call' = c
  /\ UNCHANGED << storeVersion, now, sourceText, loading, response, analyzingType,
                  activeProvider, currentHistoryId, translationControllerRef, isMountedRef,
                  history, ops, nOps, budget, aborting, last >>

\* useEffect(..., [settings.sourceLanguage, settings.targetLanguage]) of the
\* translation view: the local selection follows the store when the store's
\* languages have changed.
SyncLanguages(state) ==
  IF state.sourceLanguage # settings.sourceLanguage \/ state.targetLanguage # settings.targetLanguage
    THEN /\ localSourceLanguage' = state.sourceLanguage
         /\ localTargetLanguage' = state.targetLanguage
    ELSE UNCHANGED << localSourceLanguage, localTargetLanguage >>

\* A setter of the store called on its own.
StoreSet(state, c) ==
  /\ settings' = state
  /\ SyncLanguages(state)
  /\ UNCHANGED << localSettings, activeSlotIndex, useCustomModel, customModel >>
  /\ PanelStep(c)

SetFlag(flag, show) == StoreSet(setFlag(settings, flag, show), [fn |-> flag, show |-> show])

SetOutputFormat(outputFormat) ==
  StoreSet(setOutputFormat(settings, outputFormat),
           [fn |-> "setOutputFormat", outputFormat |-> outputFormat])

Reset == StoreSet(reset(settings), [fn |-> "reset"])

\* setUseCustomModel and setCustomModel from a slot.
CustomModelOf(slot) ==
  /\ useCustomModel' = isCustomModel(slot)
  /\ customModel' = IF isCustomModel(slot) THEN slot.model ELSE ""

\* useEffect(..., [activeSlotIndex, currentSlot.provider]): the custom-model
\* inputs follow the slot when another slot is active or its provider changed.
CustomModelEffect(nextSettings, nextIndex) ==
  IF \/ nextIndex # activeSlotIndex
     \/ nextSettings.routingSteps[nextIndex].provider
          # localSettings.routingSteps[activeSlotIndex].provider
    THEN CustomModelOf(nextSettings.routingSteps[nextIndex])
    ELSE UNCHANGED << useCustomModel, customModel >>

\* The panel mounts.
OpenPanel ==
  /\ ~localSettings.open
  /\ localSettings' = initialLocalSettings(settings)
  /\ activeSlotIndex' = 0
  /\ CustomModelOf(settings.routingSteps[0])
  /\ UNCHANGED << settings, localSourceLanguage, localTargetLanguage >>
  /\ PanelStep([fn |-> "open"])

\* The panel unmounts, what was not saved is gone.
ClosePanel ==
  /\ localSettings.open
  /\ localSettings' = NoLocalSettings
  /\ activeSlotIndex' = 0
  /\ useCustomModel' = FALSE
  /\ customModel' = ""
  /\ UNCHANGED << settings, localSourceLanguage, localTargetLanguage >>
  /\ PanelStep([fn |-> "close"])

UpdateLocalSettings(updates) ==
  /\ localSettings.open
  /\ localSettings' = updateLocalSettings(localSettings, updates)
  /\ UNCHANGED << settings, localSourceLanguage, localTargetLanguage, activeSlotIndex,
                  useCustomModel, customModel >>
  /\ PanelStep([fn |-> "updateLocalSettings", updates |-> updates])

HandleSave ==
  /\ localSettings.open
  /\ settings' = handleSave(settings, localSettings)
  /\ SyncLanguages(handleSave(settings, localSettings))
  /\ UNCHANGED << localSettings, activeSlotIndex, useCustomModel, customModel >>
  /\ PanelStep([fn |-> "handleSave"])

\* handleReset: the store is reset and the local state read from it again.
HandleReset ==
  /\ localSettings.open
  /\ settings' = reset(settings)
  /\ SyncLanguages(reset(settings))
  /\ localSettings' = initialLocalSettings(reset(settings))
  /\ activeSlotIndex' = 0
  /\ CustomModelEffect(initialLocalSettings(reset(settings)), 0)
  /\ PanelStep([fn |-> "handleReset"])

\* The store of the present version: the defaults and a routing plan, whose
\* first step is mirrored in provider and model.
PanelStore(steps) ==
  [f \in DOMAIN defaultSettings \cup {"routingSteps", "provider", "model"} |->
     CASE f = "routingSteps" -> steps
       [] f = "provider" -> steps[0].provider
       [] f = "model" -> steps[0].model
       [] OTHER -> defaultSettings[f]]

\* The store and the panel start from the defaults.
InitPanel ==
  InitWithStore({ PanelStore([s \in Steps |-> [provider |-> "groq", model |-> defaultModel("groq")]]) },
                {<<>>}, 0, "current")

\* The output options: the store's setters called in any order, and the panel
\* editing its local copy and saving it.
NextFormat ==
  \/ \E flag \in FlagNames, show \in BOOLEAN : SetFlag(flag, show)
  \/ \E outputFormat \in OutputFormats : SetOutputFormat(outputFormat)
  \/ Reset
  \/ OpenPanel
  \/ ClosePanel
  \/ \E flag \in FlagNames, show \in BOOLEAN : UpdateLocalSettings([x \in {flag} |-> show])
  \/ \E outputFormat \in OfferedFormats : UpdateLocalSettings([outputFormat |-> outputFormat])
  \/ HandleSave
  \/ HandleReset

SpecFormat == InitPanel /\ [][NextFormat]_vars

\* -------------------------------------------------- the language selection
\* handleSwapLanguages of the translation view: the local selection is
\* swapped and written to the store.
HandleSwapLanguages ==
  LET newSource == localTargetLanguage
      newTarget == localSourceLanguage
  IN  /\ localSourceLanguage' = newSource
      /\ localTargetLanguage' = newTarget
      /\ settings' = setTargetLanguage(setSourceLanguage(settings, newSource), newTarget)
      /\ UNCHANGED << localSettings, activeSlotIndex, useCustomModel, customModel >>
      /\ PanelStep([fn |-> "handleSwapLanguages"])

\* The selects of the translation view: the language of the other side swaps
\* the two, any other is taken for the local selection only.
SelectSourceLanguage(val) ==
  IF val = localTargetLanguage
    THEN HandleSwapLanguages
    ELSE /\ localSourceLanguage' = val
         /\ UNCHANGED << settings, localTargetLanguage, localSettings, activeSlotIndex,
                         useCustomModel, customModel >>
         /\ PanelStep([fn |-> "setLocalSourceLanguage", val |-> val])

SelectTargetLanguage(val) ==
  IF val = localSourceLanguage
    THEN HandleSwapLanguages
    ELSE /\ localTargetLanguage' = val
         /\ UNCHANGED << settings, localSourceLanguage, localSettings, activeSlotIndex,
                         useCustomModel, customModel >>
         /\ PanelStep([fn |-> "setLocalTargetLanguage", val |-> val])

\* The selects of the earlier panel: the language of the other side swaps the
\* two of the local settings.
UpdateLocalLanguageEarlier(side, value) ==
  LET other == IF side = "sourceLanguage" THEN "targetLanguage" ELSE "sourceLanguage"
  IN  IF value = localSettings[other]
        THEN UpdateLocalSettings([x \in {side, other} |->
                                    IF x = side THEN value ELSE localSettings[side]])
        ELSE UpdateLocalSettings([x \in {side} |-> value])

LanguageSides == {"sourceLanguage", "targetLanguage"}

\* The translation view and the panel of the present version.
NextLanguages ==
  \/ \E val \in Languages : SelectSourceLanguage(val)
  \/ \E val \in Languages : SelectTargetLanguage(val)
  \/ HandleSwapLanguages
  \/ OpenPanel
  \/ ClosePanel
  \/ \E side \in LanguageSides, v \in Languages : UpdateLocalSettings([x \in {side} |-> v])
  \/ HandleSave
  \/ HandleReset

SpecLanguages == InitPanel /\ [][NextLanguages]_vars

\* The translation view with the earlier panel.
NextLanguagesEarlier ==
  \/ \E val \in Languages : SelectSourceLanguage(val)
  \/ \E val \in Languages : SelectTargetLanguage(val)
  \/ HandleSwapLanguages
  \/ OpenPanel
  \/ ClosePanel
  \/ \E side \in LanguageSides, v \in Languages :
       localSettings.open /\ UpdateLocalLanguageEarlier(side, v)
  \/ HandleSave
  \/ HandleReset

SpecLanguagesEarlier == InitPanel /\ [][NextLanguagesEarlier]_vars

\* ---------------------------------------------------------- the routing slots
\* A step of the panel's routing editor.
SlotStep(nextSettings, nextIndex, c) ==
  /\ localSettings.open
  /\ localSettings' = nextSettings
  /\ activeSlotIndex' = nextIndex
  /\ UNCHANGED << settings, localSourceLanguage, localTargetLanguage >>
  /\ PanelStep(c)

\* A slot button: setActiveSlotIndex(idx).
SetActiveSlotIndex(idx) ==
  /\ idx # activeSlotIndex
  /\ SlotStep(localSettings, idx, [fn |-> "setActiveSlotIndex", idx |-> idx])
  /\ CustomModelEffect(localSettings, idx)

\* A call of updateActiveSlot and the effect that follows it.
UpdateActiveSlot(updates) ==
  /\ SlotStep(updateActiveSlot(localSettings, activeSlotIndex, updates), activeSlotIndex,
              [fn |-> "updateActiveSlot", updates |-> updates])

\* The provider select of the active slot.
SelectProvider(v) ==
  /\ localSettings.open
  /\ v # localSettings.routingSteps[activeSlotIndex].provider
  /\ UpdateActiveSlot([provider |-> v, model |-> defaultModel(v)])
  /\ CustomModelEffect(updateActiveSlot(localSettings, activeSlotIndex,
                                        [provider |-> v, model |-> defaultModel(v)]),
                       activeSlotIndex)

\* The model select of the active slot: a listed model, or the custom input.
SelectModel(v) ==
  /\ localSettings.open
  /\ IF v = "custom"
       THEN /\ useCustomModel' = TRUE
            /\ UNCHANGED customModel
            /\ SlotStep(localSettings, activeSlotIndex, [fn |-> "setUseCustomModel"])
       ELSE /\ v \in providerModels(localSettings.routingSteps[activeSlotIndex].provider)
            /\ useCustomModel' = FALSE
            /\ UNCHANGED customModel
            /\ UpdateActiveSlot([model |-> v])

\* The input of a custom model, shown while useCustomModel holds.
EditCustomModel(value) ==
  /\ useCustomModel
  /\ customModel' = value
  /\ UNCHANGED useCustomModel
  /\ UpdateActiveSlot([model |-> value])

\* The plans the panel may find in the store.
SlotPlans ==
  { steps \in [Steps -> StepChoices] : \A s \in Steps : s > 1 => steps[s] = steps[1] }

InitSlots ==
  InitWithStore({ PanelStore(steps) : steps \in SlotPlans }, {<<>>}, 0, "current")

NextSlots ==
  \/ OpenPanel
  \/ ClosePanel
  \/ \E idx \in Steps : SetActiveSlotIndex(idx)
  \/ \E v \in Providers : SelectProvider(v)
  \/ \E v \in {"llama-3.3-70b-versatile", "openai/gpt-oss-20b", "gemini-2.5-flash", "custom"} :
       SelectModel(v)
  \/ \E value \in CustomModels : EditCustomModel(value)

SpecSlots == InitSlots /\ [][NextSlots]_vars

\* ------------------------------------------------------------------ claims
\* What the routing operations in flight, and the one that settled last, did.
Runs ==
  { [invoked |-> ops[id].invoked, dispatched |-> ops[id].dispatched, log |-> ops[id].log,
     settled |-> FALSE] : id \in Live }
  \cup
  (IF last.kind = "none" THEN {}
   ELSE {[invoked |-> last.invoked, dispatched |-> last.dispatched, log |-> last.log,
          settled |-> TRUE]})

Settled == last.kind # "none"

Congested == {"429", "503"}

\* C1: when step 0 (with a key) fails with HTTP 429 and step 1 (with a key,
\* within the depth) is there, the router goes on to step 1, and when step 1
\* succeeds performRouting returns with providerUsed and modelUsed those of
\* step 1 and with no error of step 0 in the returned value.
C1_FallbackOn429 ==
  (providerApiKey(0) /\ providerApiKey(1) /\ settings.routingCount >= 2)
    => /\ \A r \in Runs : r.log[0] = "429" => 1 \in r.invoked
       /\ (Settled /\ last.log[0] = "429" /\ last.log[1] = "ok")
            => /\ last.outcome = "returned"
               /\ last.resultStep = 1
               /\ last.providerUsed = settings.routingSteps[1].provider
               /\ last.modelUsed = settings.routingSteps[1].model
               /\ last.err = NoError

C1_Witness ==
  /\ Settled /\ last.log[0] = "429" /\ last.log[1] = "ok"
  /\ last.outcome = "returned"
  /\ settings.routingSteps[0].provider # settings.routingSteps[1].provider

\* C2: when step 0 fails with HTTP 401, performRouting throws that error at
\* once: no operation is in flight past a 401 of step 0, and the adapter of no
\* later step is ever invoked.
C2_NoFallbackOn401 ==
  /\ \A r \in Runs : r.log[0] = "401" => (r.settled /\ r.invoked = {0})
  /\ (Settled /\ last.log[0] = "401")
       => (last.outcome = "thrown" /\ last.err = LLMError(401, 0))

C2_Witness ==
  /\ Settled /\ last.log[0] = "401"
  /\ settings.routingCount >= 2 /\ providerApiKey(1)

\* C3: depth clamp: whatever the outcomes of the steps, performRouting only
\* invokes adapters of steps with index below the routing depth.
C3_DepthClamp ==
  \A r \in Runs : \A i \in r.invoked : i < settings.routingCount

C3_Witness ==
  /\ Settled /\ settings.routingCount = 2
  /\ last.log[0] \in Congested /\ last.log[1] \in Congested
  /\ providerApiKey(2)
  /\ last.invoked = {0, 1}

NoKeyInDepth == \A i \in Steps : i < settings.routingCount => ~providerApiKey(i)

\* C4: when every step within the routing depth has an empty API key,
\* performRouting invokes no adapter and throws the explicit no-valid-API-key
\* Error: never undefined, never an error that carries a status.
C4_NoUsableConfiguration ==
  NoKeyInDepth
    => /\ Live = {}
       /\ Settled => /\ last.outcome = "thrown"
                      /\ last.err = NoValidKeyError
                      /\ last.err.status = 0
                      /\ last.invoked = {}

C4_Witness ==
  /\ Settled /\ NoKeyInDepth
  /\ \E p \in Providers : settings.apiKeys[p]

\* C5: with routing depth 1 and a key for step 0, step 0's adapter is the only
\* one invoked and every return of performRouting names step 0's provider and
\* model.
C5_DepthOne ==
  (settings.routingCount = 1 /\ providerApiKey(0))
    => /\ \A r \in Runs : r.invoked \subseteq {0}
       /\ (Settled /\ last.outcome = "returned")
            => /\ last.providerUsed = settings.routingSteps[0].provider
               /\ last.modelUsed = settings.routingSteps[0].model

C5_Witness ==
  /\ Settled /\ last.outcome = "returned"
  /\ settings.routingCount = 1
  /\ providerApiKey(1)
  /\ settings.routingSteps[1].provider # settings.routingSteps[0].provider

\* C6: once the caller's signal has been aborted, no HTTP request is dispatched
\* for any step: a request pending under an aborted signal is the one being
\* rejected, and an operation whose signal was aborted while the body of a
\* 429/503 response was read ends at the next step with an AbortError and
\* without a request.
C6_NoDispatchAfterAbort ==
  /\ \A id \in Live :
       /\ ~ops[id].dispatchedAfterAbort
       /\ (ops[id].pc = "fetch" /\ ops[id].signalAborted) => aborting = id
  /\ ~last.dispatchedAfterAbort
  /\ \A i \in Steps :
       (Settled /\ last.signalAborted /\ i \in last.invoked /\ i \notin last.dispatched)
         => (last.outcome = "thrown" /\ last.err = AbortError(i))

C6_Witness ==
  /\ Settled /\ last.signalAborted
  /\ last.log[0] \in Congested
  /\ 1 \in last.invoked /\ 1 \notin last.dispatched
  /\ last.err = AbortError(1)

\* C7: a call torn down by the caller's signal settles as aborted (an
\* AbortError), a call torn down by the per-call timeout settles with a named
\* time-out error, and the two are never the same error.
C7_CancelVsTimeout ==
  Settled
    => /\ last.cause = "cancel" => last.err.name = "AbortError"
       /\ last.cause = "timeout"
            => (last.err.name # "AbortError" /\ last.err.message = "timeout")

\* C8: an operation cancelled by the caller settles silently: no error
\* notification is raised for it, be it a translation or an analysis.
C8_CancellationSilent ==
  (Settled /\ last.cause = "cancel" /\ last.err.name = "AbortError")
    => last.toast = "none"

\* C9: the settlement of an operation aborted before its request resolved
\* changes nothing that belongs to the operation started after it: the
\* controller reference, the loading flag, activeProvider and the result.
C9_AbortedSettlementIsolated ==
  [][ (aborting # 0 /\ \E b \in Live : b > aborting)
        => /\ translationControllerRef' = translationControllerRef
           /\ loading' = loading
           /\ activeProvider' = activeProvider
           /\ response' = response ]_vars

NoLaterEligible(i) ==
  \A j \in Steps : (j > i /\ j < settings.routingCount) => ~providerApiKey(j)

\* C10: a congestion error (429 or 503) of a step with no later eligible step
\* ends the operation, and the error performRouting throws is that congestion
\* error itself.
C10_CongestionOnLastEligible ==
  \A i \in Steps :
    NoLaterEligible(i)
      => /\ \A id \in Live : ops[id].log[i] \notin Congested
         /\ (Settled /\ last.log[i] \in Congested)
              => /\ last.outcome = "thrown"
                 /\ last.err.name = "LLMError"
                 /\ last.err.step = i
                 /\ ToString(last.err.status) = last.log[i]

C10_Witness ==
  \E i \in Steps :
    /\ Settled /\ last.log[i] \in Congested
    /\ NoLaterEligible(i)
    /\ i < settings.routingCount - 1

\* C11: HTTP 429 and HTTP 503 are one congestion class wherever a fallback is
\* decided: in performRouting and in the fallback over models of the earlier
\* adapters alike, after a 429 as after a 503 the next step (model) is tried
\* exactly when there is one.
C11_CongestionClassUniform ==
  \A s \in Congested : \A i \in Steps :
    IF IsLegacy
      THEN /\ \A id \in Live :
                ops[id].log[i] = s
                  => (i + 1 \in ops[id].invoked \/ (ops[id].pc = "delay" /\ ops[id].i = i))
           /\ (Settled /\ last.log[i] = s)
                => (i + 1 \in last.invoked <=> translateGoesOn(i))
      ELSE /\ \A id \in Live :
                ops[id].log[i] = s
                  => (HasNextStep(i) /\ (i + 1 \in ops[id].invoked \/ ops[id].log[i + 1] = "skip"))
           /\ (Settled /\ last.log[i] = s)
                => IF HasNextStep(i)
                     THEN i + 1 \in last.invoked \/ last.log[i + 1] = "skip"
                     ELSE last.outcome = "thrown" /\ i + 1 \notin last.invoked

C11_Witness ==
  /\ IsLegacy /\ Settled
  /\ last.log[0] = "503" /\ last.log[1] = "429"
  /\ 2 \in last.invoked

Fatal(l) == l \notin ({"none", "skip", "ok"} \cup Congested)

\* C12: a failure of a step that is not a congestion error (another HTTP
\* status, a network failure, a timeout, a body that does not parse) ends the
\* operation at once: performRouting throws that very error and no later step
\* is attempted.
C12_FatalThrownVerbatim ==
  /\ \A id \in Live : \A i \in Steps : ~Fatal(ops[id].log[i])
  /\ \A i \in Steps :
       (Settled /\ Fatal(last.log[i]))
         => /\ last.outcome = "thrown"
            /\ last.err.step = i
            /\ Outcome(last.err) = last.log[i]
            /\ \A j \in last.invoked : j <= i

C12_Witness ==
  \E i \in Steps :
    /\ Settled /\ Fatal(last.log[i]) /\ last.err.status = 0
    /\ last.cause # "cancel"
    /\ HasNextStep(i) /\ providerApiKey(i + 1)

\* C13: first success: once the adapter call of a step succeeds, performRouting
\* returns the result, provider and model of that step, and the adapter of no
\* later step is invoked.
C13_FirstSuccess ==
  /\ \A id \in Live : \A i \in Steps : ops[id].log[i] # "ok"
  /\ \A i \in Steps :
       (Settled /\ last.log[i] = "ok")
         => /\ last.outcome = "returned"
            /\ last.resultStep = i
            /\ last.providerUsed = settings.routingSteps[i].provider
            /\ last.modelUsed = settings.routingSteps[i].model
            /\ \A j \in last.invoked : j <= i

C13_Witness ==
  /\ Settled /\ last.log[0] = "ok"
  /\ settings.routingCount >= 2 /\ providerApiKey(1)

\* The steps within the depth that have a key: the plan with the key-less
\* steps removed.
Eligible == { i \in Steps : i < StepsToTryLen /\ providerApiKey(i) }

Greatest(S) == CHOOSE m \in S : \A x \in S : x <= m

InFlight(r) == { i \in r.dispatched : r.log[i] = "none" }

\* C15: the steps of one operation run one after the other: at most one of its
\* requests is in flight at any moment, and a step is started only after
\* every step attempted before it has settled with a failure.
C15_StrictlySequential ==
  \A r \in Runs :
    /\ Cardinality(InFlight(r)) <= 1
    /\ \A i \in r.invoked : \A j \in r.invoked :
         j < i => r.log[j] \notin {"none", "ok", "skip"}

C15_Witness ==
  \E id \in Live :
    /\ ops[id].pc = "fetch" /\ ops[id].i = 1
    /\ ops[id].log[0] \in Congested
    /\ ops[id].dispatched = {0, 1}

\* C16: the steps an operation attempts are strictly increasing in plan index
\* (none twice, none out of order), and every operation starts scanning the
\* plan at step 0, whatever the operations before it met: its first attempt is
\* the first eligible step.
C16_IncreasingFromStepZero ==
  \A a \in {ops[id].attempts : id \in Live} \cup {last.attempts} :
    /\ \A k \in 1 .. (Len(a) - 1) : a[k] < a[k + 1]
    /\ a # <<>> => (a[1] \in Eligible /\ \A j \in Eligible : a[1] <= j)

C16_Witness ==
  \E id \in Live :
    /\ id > 1
    /\ ops[id].attempts = <<0>>
    /\ history # <<>>
    /\ history[1].provider = settings.routingSteps[1].provider
    /\ history[1].provider # settings.routingSteps[0].provider

\* C17: one adapter call (translateText, analyzeSpecific, analyzeTranslation,
\* translate) sends one HTTP POST whatever the status of the response: the
\* adapter does not try again and does not switch to another model.
C17_OnePostPerAdapterCall ==
  \A r \in Runs : Cardinality(r.dispatched) <= 1 /\ r.invoked \subseteq {0}

\* C18: after a response that is not 2xx the adapter call fails with an error
\* that carries the HTTP status of that response.
C18_ErrorCarriesStatus ==
  \A i \in Steps :
    (Settled /\ last.outcome = "thrown" /\ last.err.step = i
       /\ last.log[i] \in {"401", "429", "500", "503"})
      => ToString(last.err.status) = last.log[i]

\* C19: when every model (step) that was attempted failed with rate limiting,
\* the error that reaches the caller is recognisable as a rate-limit error, by
\* its status or by the rate-limit message.
C19_RateLimitIdentifiable ==
  (Settled /\ last.outcome = "thrown" /\ last.invoked # {}
     /\ \A i \in last.invoked : last.log[i] = "429")
    => (last.err.status \in {429, 503} \/ last.err.message = "Rate limit exceeded")

IsNewestFirst(h) ==
  \A k \in 1 .. (Len(h) - 1) : h[k].timestamp >= h[k + 1].timestamp

\* C29 as the specification words it: after any sequence of addHistoryItem,
\* updateHistoryItem, deleteHistoryItem and clearHistory under a clock that
\* never goes back, the list of the store is newest first.
C29_StoreNewestFirst == IsNewestFirst(history)

CarriesTimestamp(c) ==
  c.fn = "updateHistoryItem" /\ "timestamp" \in DOMAIN c.updates

\* No item of the list is later than the clock t.
NoneLater(h, t) == \A k \in DOMAIN h : h[k].timestamp <= t

\* C29: addHistoryItem, deleteHistoryItem, clearHistory and every
\* updateHistoryItem whose updates carry no timestamp take a list of the store
\* that is newest first and has no item later than the clock to such a list;
\* an update that carries a timestamp may leave the store's list in any
\* order, and what is newest first in every state is sortedHistory, the list
\* the history panel shows.
C29_NewestFirstKept ==
  [][ /\ (IsNewestFirst(history) /\ NoneLater(history, now) /\ ~CarriesTimestamp(call'))
         => (IsNewestFirst(history') /\ NoneLater(history', now'))
      /\ IsNewestFirst(sortedHistory(history')) ]_vars

C29_Witness ==
  /\ call.fn = "addHistoryItem"
  /\ Len(history) = MaxHistoryLen
  /\ history[1].timestamp > history[2].timestamp
  /\ history[2].analysis # NoAnalysis

\* C30: deleteHistoryItem(id) takes the items whose id is id out of the list
\* and nothing else: the items of any other id stay as they are and in the
\* order they had, and the list is left as it is when no item has the id.
C30_DeleteExactly ==
  [][ call'.fn = "deleteHistoryItem"
        => LET kept == { k \in DOMAIN history : history[k].id # call'.id }
               \* position in the new list of the k-th item of the old one
               pos(k) == Cardinality({ j \in kept : j <= k })
           IN  /\ Len(history') = Cardinality(kept)
               /\ \A k \in kept : history'[pos(k)] = history[k]
               /\ (kept = DOMAIN history) => history' = history ]_vars

C30_Witness ==
  /\ call.fn = "deleteHistoryItem"
  /\ call.id \in StoreIds
  /\ Len(history) = 1
  /\ history[1].id # call.id
  /\ now = MaxClock

\* C26: after a translation has succeeded, the item the history got for it is
\* at the head of the list and has the id that currentHistoryId holds, the id
\* a later updateHistoryItem(currentHistoryId, analysis) looks for.
C26_HistoryIdConsistent ==
  (Settled /\ last.kind = "translate" /\ last.outcome = "returned" /\ last.mounted)
    => /\ history # << >>
       /\ currentHistoryId # 0
       /\ history[1].id = currentHistoryId

\* A text of nothing but blanks.
IsBlank(t) == \A k \in DOMAIN t : t[k] = " "

\* C27: every translation in flight carries a source text that is not blank,
\* every analysis in flight the non-blank original of a translation, and a
\* step that starts a translation is taken from a state whose source text is
\* not blank and in which no translation is loading.
C27_NoBlankSourceText ==
  [][ /\ \A id \in OpIds :
           /\ ops'[id].kind = "translate" => ~IsBlank(ops'[id].sourceText)
           /\ ops'[id].kind = "analyze" => ~IsBlank(ops'[id].response.original)
      /\ (nOps' # nOps /\ (ops'[nOps'].kind = "translate" \/ last'.kind = "translate"))
           => (~IsBlank(sourceText) /\ ~loading) ]_vars

C27_Witness ==
  /\ IsBlank(sourceText) /\ sourceText # << >>
  /\ ~loading /\ Interactive /\ nOps < budget
  /\ Settled /\ last.kind = "translate" /\ last.outcome = "returned"
  /\ response.original = <<"a">>

\* C28: the item the history gets for a translation names the provider and
\* the model of the step whose request was answered with the result, not
\* those of step 0 when the router fell back.
C28_HistoryNamesStepUsed ==
  (Settled /\ last.kind = "translate" /\ last.outcome = "returned" /\ last.mounted)
    => /\ history # << >>
       /\ \E i \in Steps :
            /\ last.log[i] = "ok"
            /\ \A j \in Steps : j > i => last.log[j] = "none"
            /\ history[1].provider = settings.routingSteps[i].provider
            /\ history[1].model = settings.routingSteps[i].model

C28_Witness ==
  /\ Settled /\ last.kind = "translate" /\ last.outcome = "returned" /\ last.mounted
  /\ last.log[0] \in Congested /\ last.log[1] = "ok"
  /\ history[1].provider = "gemini"
  /\ history[1].provider # settings.routingSteps[0].provider

Trimmed(text) ==
  LET solid == { k \in DOMAIN text : text[k].t \notin {"sp", "nl"} }
  IN  IF solid = {} THEN << >>
      ELSE SubSeq(text, CHOOSE k \in solid : \A j \in solid : k <= j,
                        CHOOSE k \in solid : \A j \in solid : j <= k)

\* C21 as the specification words it: the normalizer never throws; an
\* analysis call gives an object whatever the text, and a translation call
\* gives a translation, the trimmed text itself when the text is no JSON.
C21_NormalizerTotal ==
  /\ call.fn = "parseAnalysisResponse" => call.result.kind = "object"
  /\ call.fn = "parseResponse" => call.result.kind \in {"object", "literal"}
  /\ call.fn = "translateText" => call.result = Literal(Trimmed(call.content))

\* What is left of a trimmed text that begins with a fence when the fence, a
\* tag json after it and the white space that follows are taken from its
\* start, and a fence, with a newline before it, from its end.
Unfenced(text) ==
  LET n == Len(text)
      tagged == n >= 2 /\ text[2].t = "json"
      after == IF tagged THEN 3 ELSE 2
      solid == { k \in after .. n : text[k].t \notin {"sp", "nl"} }
      from == IF solid = {} THEN n + 1 ELSE CHOOSE k \in solid : \A j \in solid : k <= j
      rest == SubSeq(text, from, n)
      m == Len(rest)
  IN  IF m >= 1 /\ rest[m].t = "fence"
        THEN IF m >= 2 /\ rest[m - 1].t = "nl" THEN SubSeq(rest, 1, m - 2)
             ELSE SubSeq(rest, 1, m - 1)
        ELSE rest

\* The text from its first { to its last }, empty when it has not both.
Braced(text) ==
  LET opens == { k \in DOMAIN text : text[k] = Tok("{") }
      closes == { k \in DOMAIN text : text[k] = Tok("}") }
  IN  IF opens = {} \/ closes = {} THEN << >>
      ELSE SubSeq(text, CHOOSE k \in opens : \A j \in opens : k <= j,
                        CHOOSE k \in closes : \A j \in closes : j <= k)

\* C22: the normalizer's attempts, in their order: the trimmed text, without
\* its fences when it begins with one, parsed strictly; when that is no JSON,
\* the text from the first { to the last } of the text as it came; the value
\* is that of the first attempt that parses, and the empty object when none
\* does.
C22_OrderOfAttempts ==
  call.fn = "parseAnalysisResponse"
    => LET trimmed == Trimmed(call.content)
           first == IF trimmed # << >> /\ trimmed[1] = Tok("fence")
                      THEN Unfenced(trimmed) ELSE trimmed
           second == Braced(call.content)
       IN  call.result =
             IF JSONparse(first).kind # "error" THEN JSONparse(first)
             ELSE IF second # << >> /\ JSONparse(second).kind # "error" THEN JSONparse(second)
             ELSE JsonObject(<< >>)

C22_Witness ==
  /\ call.fn = "parseAnalysisResponse"
  /\ call.content = << Tok("fence"), Tok("json"), Tok("nl"),
                       Tok("{"), Member("translation", 1), Tok("}"),
                       Tok("nl"), Tok("fence") >>
  /\ call.result = JsonObject([key \in {"translation"} |-> 1])

\* C23: the normalizer gives back every analysis object from its
\* serialization, compact or indented: normalize(serialize(x)) = x.
C23_RoundTrip ==
  call.fn = "roundTrip" => call.result = ObjectOf(call.x)

C23_Witness ==
  /\ call.fn = "roundTrip"
  /\ Len(call.x) = Cardinality(AnalysisTypes)
  /\ \E k \in DOMAIN call.content : call.content[k] = Tok("nl")
  /\ call.result.kind = "object"
  /\ call.result.members["grammar"] = 2
  /\ call.result.members["nuance"] = 1

\* The structured field of a system prompt: { parts: [{ text: systemPrompt }] }
Structured(text) == [parts |-> << [text |-> text] >>]

C37_NothingLeftArmed ==
  \A id \in OpIds :
    /\ ops[id].pc # "fetch" => (~ops[id].timer /\ ~ops[id].listener)
    /\ (ops[id].pc = "fetch" /\ ops[id].signalAborted) => aborting = id
    /\ ~ops[id].dispatchedAfterAbort

C37_Witness ==
  \E id \in OpIds :
    /\ ops[id].pc \in {"okBody", "errBody", "delay"}
    /\ ops[id].signalAborted
    /\ ops[id].i >= 1
    /\ ~ops[id].timer /\ ~ops[id].listener

\* C38: the step that unmounts the component leaves every operation in
\* flight with its signal aborted, and no step taken once the component is
\* unmounted adds an item to the history, changes an item of it, or sets the
\* result (response, currentHistoryId).
C38_UnmountTearsDown ==
  [][ /\ (isMountedRef /\ ~isMountedRef')
           => \A id \in OpIds : ops'[id].pc # "idle" => ops'[id].signalAborted
      /\ ~isMountedRef
           => /\ history' = history
              /\ response' = response
              /\ currentHistoryId' = currentHistoryId ]_vars

C38_Witness ==
  /\ ~isMountedRef
  /\ Settled /\ ~last.mounted /\ last.signalAborted
  /\ last.kind = "analyze" /\ last.outcome = "returned"
  /\ history # << >> /\ history[1].analysis = NoAnalysis

\* C31: whenever a translation is loading in a mounted component, loading
\* becomes false again (or the component is unmounted), however the routing
\* operation settles.
C31_LoadingEnds ==
  (loading /\ isMountedRef) ~> (~loading \/ ~isMountedRef)

\* C32: every analysis in the response that is shown was computed for the
\* translation that is shown: it names that translation, whose history item
\* has the source text the response gives as its original.
C32_AnalysisOfShownTranslation ==
  \A t \in AnalysisTypes :
    response.analysis[t] # 0
      => /\ response.analysis[t] = response.translation
         /\ \E k \in DOMAIN history :
              /\ history[k].id = response.analysis[t]
              /\ history[k].sourceText = response.original

\* C33: the history never holds more than 100 items; addHistoryItem puts the
\* new item, stamped with the clock and under an id no item had, at the head
\* of the list, in front of all the items there were, or of all but the last
\* of them when there were 100.
C33_HistoryBound ==
  [][ /\ Len(history') <= 100
      /\ call'.fn = "addHistoryItem"
           => /\ history' # << >>
              /\ history'[1].timestamp = now
              /\ \A k \in DOMAIN history : history[k].id # history'[1].id
              /\ Tail(history') = IF Len(history) < 100 THEN history
                                  ELSE SubSeq(history, 1, 99) ]_vars

C33_Witness ==
  /\ call.fn = "addHistoryItem"
  /\ storeVersion = "earlier"
  /\ Len(history) = 100
  /\ history[1].id = -101
  /\ history[100].id = -2

\* The ids of the items of a list.
IdsOf(h) == { h[k].id : k \in DOMAIN h }

\* C34: a step of updateHistoryItem(id, updates) keeps the length of the
\* history, the id of the item at every position and so the set of ids, and
\* every item whose id is not the one given; when no item has the id the
\* history is what it was.
C34_UpdateFrame ==
  [][ call'.fn = "updateHistoryItem"
        => /\ Len(history') = Len(history)
           /\ \A k \in DOMAIN history :
                /\ history'[k].id = history[k].id
                /\ history[k].id # call'.id => history'[k] = history[k]
           /\ IdsOf(history') = IdsOf(history)
           /\ call'.id \notin IdsOf(history) => history' = history ]_vars

\* C35: in every state of the settings store the output format is the one
\* computeOutputFormat gives for the three flags.
C35_FormatFollowsFlags ==
  settings.outputFormat = computeOutputFormat(settings.showWordList,
                                              settings.showDetailedExplanation,
                                              settings.showNuanceExplanation)

\* C36: the source and the target language differ, in the local selection of
\* the translation view and in the settings store.
C36_LanguagesDiffer ==
  /\ localSourceLanguage # localTargetLanguage
  /\ settings.sourceLanguage # settings.targetLanguage

\* C39: a step of updateActiveSlot leaves the active slot where it is, writes
\* its updates into that slot and changes no other slot; provider and model
\* of the local settings are those of slot 0 when slot 0 is the active one and
\* stay what they were otherwise; no other local setting changes.
C39_OnlyActiveSlot ==
  [][ call'.fn = "updateActiveSlot"
        => /\ activeSlotIndex' = activeSlotIndex
           /\ localSettings'.routingSteps[activeSlotIndex]
                = Set(localSettings.routingSteps[activeSlotIndex], call'.updates)
           /\ \A s \in Steps \ {activeSlotIndex} :
                localSettings'.routingSteps[s] = localSettings.routingSteps[s]
           /\ IF activeSlotIndex = 0
                THEN /\ localSettings'.provider = localSettings'.routingSteps[0].provider
                     /\ localSettings'.model = localSettings'.routingSteps[0].model
                ELSE /\ localSettings'.provider = localSettings.provider
                     /\ localSettings'.model = localSettings.model
           /\ \A f \in DOMAIN localSettings \ {"routingSteps", "provider", "model"} :
                localSettings'[f] = localSettings[f] ]_vars

C39_Witness ==
  /\ call.fn = "updateActiveSlot"
  /\ activeSlotIndex = 2
  /\ localSettings.routingSteps[2] = [provider |-> "gemini", model |-> "my-model"]
  /\ localSettings.routingSteps[1] = [provider |-> "groq", model |-> "openai/gpt-oss-20b"]
  /\ localSettings.routingSteps[0] = [provider |-> "groq", model |-> "my-model"]
  /\ localSettings.model = "my-model"

====
